---- MODULE Spec2Model ----
(***************************************************************************)
(* A model of privacy-on-beam/pbeam/aggregations.go: the bounded-sum       *)
(* combiners (int64 and float64), the privacy-budget split done by their   *)
(* constructors, contribution bounding, and the partition-specification    *)
(* filter with the combiner that builds its broadcast set.                 *)
(*                                                                         *)
(* Pointers are modelled as indices into heaps (bsHeap, spHeap, mapHeap):  *)
(* an accumulator struct holds references, so two copies of the struct     *)
(* share their sub-states, exactly as the Go values do.                    *)
(***************************************************************************)
EXTENDS Integers, Sequences, FiniteSets, TLC

VARIABLES
    \* ---- bounded-sum combiners -------------------------------------------
    fns,        \* the constructed combiners (boundedSumInt64Fn / boundedSumFloat64Fn)
    accs,       \* accumulator structs handed out by CreateAccumulator
    bsHeap,     \* the *dpagg.BoundedSum{Int64,Float64} objects
    spHeap,     \* the *dpagg.PreAggSelectPartition objects
    lastOut,    \* the call just made, when it was ExtractOutput: its accumulator and result
    exited,     \* log.Exit was called or the goroutine panicked: the process is gone
    post,       \* the postprocessing step just applied to lastOut, and what it emitted
    \* bookkeeping of the run (not program state)
    creator,    \* which combiner created accumulator i
    inputsOf,   \* the bag of values folded into accumulator i, directly or by merges
    leavesOf,   \* the accumulators merged into accumulator i (itself included)
    live,       \* accumulators the engine still holds (not merged away, not extracted)
    adds,       \* number of AddInput calls so far
    \* ---- contribution bounding -------------------------------------------
    kvCol,              \* the input PCollection<K,V>, in the order the engine feeds it
    contributionLimit,  \* the limit boundContributions was called with
    fed,                \* number of records of kvCol fed to top.LargestPerKey so far
    sampled,            \* per key, the values top.LargestPerKey holds: PCollection<K,[]V>
    flattened,          \* the keys flattenValuesFn has processed
    bounded,            \* the output PCollection<K,V>, in emission order
    \* ---- combiner construction -------------------------------------------
    newArgs,            \* the arguments the constructor is called with
    \* ---- building the partition set --------------------------------------
    mapFn,              \* which combiner builds it: partitionsHashMapFn or KVpartitionsHashMapFn
    partitionsCol,      \* the caller-supplied partition keys, in the order they are fed
    mapFed,             \* number of keys of partitionsCol fed to AddInput so far
    mapAccs,            \* the mapAccum structs the engine holds
    mapHeap,            \* the map[Partition]bool objects
    mapLive,            \* the accumulators not merged away and not extracted
    mapOut,             \* what ExtractOutput returned (a reference into mapHeap), 0 before
    keysOf,             \* bookkeeping: the keys folded into accumulator i
    \* ---- the partition filter and the aggregation after it ----------------
    flavour,            \* "sum" (dropUnspecifiedPartitions) or "count" (...ForCount)
    partitions,         \* the partition-key sources the caller gave: []beam.PCollection
    pcol,               \* the records of pcol.col
    dropStage,          \* "start", "pruning" (side input built, ParDo running) or "passed"
    partitionsMap,      \* the broadcast side input: the map[Partition]bool built
    pruneTodo,          \* the records of pcol the pruning ParDo has not processed yet
    filtered,           \* what dropUnspecifiedPartitions returns, with the record emitted from
    pipeStage,          \* "filter", "aggregate": contribution bounding is done
    kept,               \* the entries of filtered that contribution bounding kept
    aggregated,         \* the partition keys combined and postprocessed
    finalOut,           \* the final output: (partition key, value) pairs
    \* ---- two runs of contribution bounding on one random source ----------
    randSource,         \* the values rand.Uint32() returns, in order, as far as drawn
    twin,               \* the two inputs, the limit, and how far each run has got
    \* ---- decoding the rekeyed pairs --------------------------------------
    dec                 \* the decodePair DoFn: its kind, its input, what is left, its output

combVars == <<fns, accs, bsHeap, spHeap, lastOut, exited, post,
              creator, inputsOf, leavesOf, live, adds>>

boundVars == <<kvCol, contributionLimit, fed, sampled, flattened, bounded>>

setVars == <<mapFn, partitionsCol, mapFed, mapAccs, mapHeap, mapLive, mapOut, keysOf>>

filterVars == <<flavour, partitions, pcol, dropStage, partitionsMap, pruneTodo, filtered>>
pipeVars == <<pipeStage, kept, aggregated, finalOut>>

twinVars == <<randSource, twin>>

vars == <<combVars, boundVars, newArgs, setVars, filterVars, pipeVars, twinVars, dec>>

nonCombVars  == <<boundVars, newArgs, setVars, filterVars, pipeVars, twinVars, dec>>
nonBoundVars == <<combVars, newArgs, setVars, filterVars, pipeVars, twinVars, dec>>
nonSetVars   == <<combVars, boundVars, newArgs, filterVars, pipeVars, twinVars, dec>>
nonPipeVars  == <<combVars, boundVars, newArgs, setVars, twinVars, dec>>
nonTwinVars  == <<combVars, boundVars, newArgs, setVars, filterVars, pipeVars, dec>>

----------------------------------------------------------------------------
(* Bounds of the model.                                                    *)
MaxAccs == 3
MaxAdds == 2
MaxRecords == 4
MaxLimit == 2
MaxKeys == 3
MaxMapAccs == 3
MaxPipeRecs == 2

(* Inputs are drawn from these sets. *)
Values      == {-1, 2, 5}
ClampBounds == {<<0, 3>>}
\* The bounds a caller may ask a combiner for: lower < upper, = upper, > upper.
NewBounds   == {<<0, 3>>, <<3, 3>>, <<4, 1>>}
Noises      == {-1, 0}
GroupKeys   == {"u1", "u2"}
RecValues   == {5, 7, 9}
Uint32Samples == {0, 7, 2147483646}
Epsilons    == {<<1, 0>>, <<3, -1>>, <<5, 2>>}
\* Partition keys are strings, given by their bytes: "a", "b", "c".
KeyA == <<97>>
KeyB == <<98>>
KeyC == <<99>>
PartitionKeys == {KeyA, KeyB, KeyC}
PrivacyIds    == {"u1", "u2"}
PipeValues    == {5}
\* What the caller may give as partition-key sources: none, one or two.
KeySources    == {<<KeyA, KeyB>>, <<KeyB, KeyA, KeyB>>, <<KeyC>>}
PartitionLists ==
    {<<>>} \cup {<<p>> : p \in KeySources} \cup {<<p, q>> : p \in KeySources, q \in KeySources}
Deltas      == {<<0, 0>>, <<1, -3>>, <<3, -10>>}

----------------------------------------------------------------------------
(* Budgets are binary floating-point numbers.  A number is <<m, e>>,        *)
(* standing for m * 2^e, so that halving is exact as it is for float64.    *)
Pow2(n) == IF n <= 0 THEN 1 ELSE 2 ^ n

DZero == <<0, 0>>

\* x / 2 on float64 (exact: only the exponent changes).
Half(x) == <<x[1], x[2] - 1>>

\* x + y on float64 for operands whose sum needs no rounding.
DAdd(x, y) ==
    LET e == IF x[2] < y[2] THEN x[2] ELSE y[2]
    IN  <<x[1] * Pow2(x[2] - e) + y[1] * Pow2(y[2] - e), e>>

\* x == y on float64.
DEq(x, y) ==
    LET e == IF x[2] < y[2] THEN x[2] ELSE y[2]
    IN  x[1] * Pow2(x[2] - e) = y[1] * Pow2(y[2] - e)

----------------------------------------------------------------------------
(* noise.Kind and reflect.Kind values. *)
GaussianNoise == "GaussianNoise"
LaplaceNoise  == "LaplaceNoise"
UnknownNoise  == "UnknownNoise"
Int64Kind     == "Int64"
Float64Kind   == "Float64"
StringKind    == "String"

NoFn ==
    [vKind |-> "none", EpsilonNoise |-> DZero, EpsilonPartitionSelection |-> DZero,
     DeltaNoise |-> DZero, DeltaPartitionSelection |-> DZero,
     MaxPartitionsContributed |-> 0, Lower |-> 0, Upper |-> 0,
     NoiseKind |-> UnknownNoise, noise |-> "nil", PartitionsSpecified |-> FALSE]

\* newBoundedSumInt64Fn whose switch has no default case: an unknown noise
\* kind gives a combiner with no delta set.
newBoundedSumInt64Fn_NoDefault(epsilon, delta, maxPartitionsContributed, lower, upper, noiseKind, partitionsSpecified) ==
    LET fn0 == [NoFn EXCEPT !.vKind = Int64Kind,
                            !.MaxPartitionsContributed = maxPartitionsContributed,
                            !.Lower = lower, !.Upper = upper,
                            !.NoiseKind = noiseKind,
                            !.PartitionsSpecified = partitionsSpecified]
        fn1 == [fn0 EXCEPT !.EpsilonNoise = Half(epsilon),
                           !.EpsilonPartitionSelection = Half(epsilon)]
    IN  CASE noiseKind = GaussianNoise ->
               [exit |-> FALSE,
                fn |-> [fn1 EXCEPT !.DeltaNoise = Half(delta),
                                   !.DeltaPartitionSelection = Half(delta)]]
          [] noiseKind = LaplaceNoise ->
               [exit |-> FALSE,
                fn |-> [fn1 EXCEPT !.DeltaNoise = DZero,
                                   !.DeltaPartitionSelection = delta]]
          [] OTHER -> [exit |-> FALSE, fn |-> fn1]

\* newBoundedSumInt64Fn: returns [exit, fn]; exit is log.Exitf, after which
\* nothing is returned.
newBoundedSumInt64Fn(epsilon, delta, maxPartitionsContributed, lower, upper, noiseKind, partitionsSpecified) ==
    LET fn0 == [NoFn EXCEPT !.vKind = Int64Kind,
                            !.MaxPartitionsContributed = maxPartitionsContributed,
                            !.Lower = lower, !.Upper = upper,
                            !.NoiseKind = noiseKind,
                            !.PartitionsSpecified = partitionsSpecified]
        fn1 == [fn0 EXCEPT !.EpsilonNoise = Half(epsilon),
                           !.EpsilonPartitionSelection = Half(epsilon)]
    IN  CASE noiseKind = GaussianNoise ->
               [exit |-> FALSE,
                fn |-> [fn1 EXCEPT !.DeltaNoise = Half(delta),
                                   !.DeltaPartitionSelection = Half(delta)]]
          [] noiseKind = LaplaceNoise ->
               [exit |-> FALSE,
                fn |-> [fn1 EXCEPT !.DeltaNoise = DZero,
                                   !.DeltaPartitionSelection = delta]]
          [] OTHER -> [exit |-> TRUE, fn |-> NoFn]

\* newBoundedSumFloat64Fn that halves delta for Laplace noise too.
newBoundedSumFloat64Fn_HalvesAlways(epsilon, delta, maxPartitionsContributed, lower, upper, noiseKind, partitionsSpecified) ==
    LET fn0 == [NoFn EXCEPT !.vKind = Float64Kind,
                            !.MaxPartitionsContributed = maxPartitionsContributed,
                            !.Lower = lower, !.Upper = upper,
                            !.NoiseKind = noiseKind,
                            !.PartitionsSpecified = partitionsSpecified]
        fn1 == [fn0 EXCEPT !.EpsilonNoise = Half(epsilon),
                           !.EpsilonPartitionSelection = Half(epsilon)]
    IN  CASE noiseKind = GaussianNoise ->
               [exit |-> FALSE,
                fn |-> [fn1 EXCEPT !.DeltaNoise = Half(delta),
                                   !.DeltaPartitionSelection = Half(delta)]]
          [] noiseKind = LaplaceNoise ->
               [exit |-> FALSE,
                fn |-> [fn1 EXCEPT !.DeltaNoise = DZero,
                                   !.DeltaPartitionSelection = Half(delta)]]
          [] OTHER -> [exit |-> TRUE, fn |-> NoFn]

\* newBoundedSumFloat64Fn
newBoundedSumFloat64Fn(epsilon, delta, maxPartitionsContributed, lower, upper, noiseKind, partitionsSpecified) ==
    LET fn0 == [NoFn EXCEPT !.vKind = Float64Kind,
                            !.MaxPartitionsContributed = maxPartitionsContributed,
                            !.Lower = lower, !.Upper = upper,
                            !.NoiseKind = noiseKind,
                            !.PartitionsSpecified = partitionsSpecified]
        fn1 == [fn0 EXCEPT !.EpsilonNoise = Half(epsilon),
                           !.EpsilonPartitionSelection = Half(epsilon)]
    IN  CASE noiseKind = GaussianNoise ->
               [exit |-> FALSE,
                fn |-> [fn1 EXCEPT !.DeltaNoise = Half(delta),
                                   !.DeltaPartitionSelection = Half(delta)]]
          [] noiseKind = LaplaceNoise ->
               [exit |-> FALSE,
                fn |-> [fn1 EXCEPT !.DeltaNoise = DZero,
                                   !.DeltaPartitionSelection = delta]]
          [] OTHER -> [exit |-> TRUE, fn |-> NoFn]

\* (fn).Setup for both combiners: noise.ToNoise(fn.NoiseKind).
SetupFn(fn) == [fn EXCEPT !.noise = fn.NoiseKind]

\* checks.CheckBoundsFloat64, by its contract: TRUE when it returns an error,
\* which it does for bounds with lower >= upper.
CheckBoundsFloat64(lower, upper) == lower >= upper

\* checks.CheckBoundsFloat64AsInt64, by its contract: an error for bounds
\* with lower >= upper or outside int64 (none of the bounds drawn is).
CheckBoundsFloat64AsInt64(lower, upper) == lower >= upper

\* int64(x) for the float64 bounds drawn, which are whole numbers.
Int64Of(x) == x

\* newBoundedSumFn that drops the error of the bounds check.
newBoundedSumFn_IgnoresErr(epsilon, delta, maxPartitionsContributed, lower, upper, noiseKind, vKind, partitionsSpecified) ==
    CASE vKind = Int64Kind ->
           newBoundedSumInt64Fn(epsilon, delta, maxPartitionsContributed,
               Int64Of(lower), Int64Of(upper), noiseKind, partitionsSpecified)
      [] vKind = Float64Kind ->
           newBoundedSumFloat64Fn(epsilon, delta, maxPartitionsContributed,
               lower, upper, noiseKind, partitionsSpecified)
      [] OTHER -> [exit |-> TRUE, fn |-> NoFn]

\* newBoundedSumFn: the bounds are checked, the constructor of the value kind
\* is called (and may exit), and then the error of the check is fatal.
newBoundedSumFn(epsilon, delta, maxPartitionsContributed, lower, upper, noiseKind, vKind, partitionsSpecified) ==
    CASE vKind = Int64Kind ->
           LET err  == CheckBoundsFloat64AsInt64(lower, upper)
               bsFn == newBoundedSumInt64Fn(epsilon, delta, maxPartitionsContributed,
                           Int64Of(lower), Int64Of(upper), noiseKind, partitionsSpecified)
           IN  IF bsFn.exit \/ err THEN [exit |-> TRUE, fn |-> NoFn] ELSE bsFn
      [] vKind = Float64Kind ->
           LET err  == CheckBoundsFloat64(lower, upper)
               bsFn == newBoundedSumFloat64Fn(epsilon, delta, maxPartitionsContributed,
                           lower, upper, noiseKind, partitionsSpecified)
           IN  IF bsFn.exit \/ err THEN [exit |-> TRUE, fn |-> NoFn] ELSE bsFn
      [] OTHER -> [exit |-> TRUE, fn |-> NoFn]

----------------------------------------------------------------------------
(* The dpagg primitives, by their contract: Add clamps and adds, Merge     *)
(* adds the other sum (count), Result adds the noise drawn (tells whether  *)
(* the partition survives).                                                *)
NewBoundedSum(opt) == [sum |-> 0, opt |-> opt]

Clamp(e, lower, upper) ==
    IF e < lower THEN lower ELSE IF e > upper THEN upper ELSE e

BSAdd(bs, e) == [bs EXCEPT !.sum = @ + Clamp(e, bs.opt.Lower, bs.opt.Upper)]

BSMerge(bs, bs2) == [bs EXCEPT !.sum = @ + bs2.sum]

\* Result with the noise sample n the mechanism drew.
BSResult(bs, n) == bs.sum + n

NewPreAggSelectPartition(opt) == [idCount |-> 0, opt |-> opt]

SPAdd(sp) == [sp EXCEPT !.idCount = @ + 1]

SPMerge(sp, sp2) == [sp EXCEPT !.idCount = @ + sp2.idCount]

\* Result with the random decision keep the mechanism drew.
SPResult(sp, keep) == keep

----------------------------------------------------------------------------
(* The accumulator protocol.  Each operator takes the heaps and returns    *)
(* the heaps after the call together with the value returned.              *)

\* An optional scalar: *int64 / *float64.
Nil        == [present |-> FALSE, value |-> 0]
Ptr(value) == [present |-> TRUE, value |-> value]

\* CreateAccumulator that leaves PartitionsSpecified at its zero value.
CreateAccumulatorInt64_FlagUnset(fn, bs, sp) ==
    [bs  |-> Append(bs, NewBoundedSum(
                 [Epsilon |-> fn.EpsilonNoise, Delta |-> fn.DeltaNoise,
                  MaxPartitionsContributed |-> fn.MaxPartitionsContributed,
                  Lower |-> fn.Lower, Upper |-> fn.Upper, Noise |-> fn.noise])),
     sp  |-> Append(sp, NewPreAggSelectPartition(
                 [Epsilon |-> fn.EpsilonPartitionSelection,
                  Delta |-> fn.DeltaPartitionSelection,
                  MaxPartitionsContributed |-> fn.MaxPartitionsContributed])),
     ret |-> [PartitionsSpecified |-> FALSE,
              BS |-> Len(bs) + 1, SP |-> Len(sp) + 1]]

\* boundedSumInt64Fn.CreateAccumulator
CreateAccumulatorInt64(fn, bs, sp) ==
    [bs  |-> Append(bs, NewBoundedSum(
                 [Epsilon |-> fn.EpsilonNoise, Delta |-> fn.DeltaNoise,
                  MaxPartitionsContributed |-> fn.MaxPartitionsContributed,
                  Lower |-> fn.Lower, Upper |-> fn.Upper, Noise |-> fn.noise])),
     sp  |-> Append(sp, NewPreAggSelectPartition(
                 [Epsilon |-> fn.EpsilonPartitionSelection,
                  Delta |-> fn.DeltaPartitionSelection,
                  MaxPartitionsContributed |-> fn.MaxPartitionsContributed])),
     ret |-> [PartitionsSpecified |-> fn.PartitionsSpecified,
              BS |-> Len(bs) + 1, SP |-> Len(sp) + 1]]

\* CreateAccumulator of a combiner that builds its sub-states once and
\* hands the same ones to every accumulator.
CreateAccumulatorFloat64_Shared(fn, bs, sp) ==
    IF Len(bs) > 0
    THEN [bs |-> bs, sp |-> sp,
          ret |-> [BS |-> 1, SP |-> 1, PartitionsSpecified |-> fn.PartitionsSpecified]]
    ELSE [bs  |-> Append(bs, NewBoundedSum(
                      [Epsilon |-> fn.EpsilonNoise, Delta |-> fn.DeltaNoise,
                       MaxPartitionsContributed |-> fn.MaxPartitionsContributed,
                       Lower |-> fn.Lower, Upper |-> fn.Upper, Noise |-> fn.noise])),
          sp  |-> Append(sp, NewPreAggSelectPartition(
                      [Epsilon |-> fn.EpsilonPartitionSelection,
                       Delta |-> fn.DeltaPartitionSelection,
                       MaxPartitionsContributed |-> fn.MaxPartitionsContributed])),
          ret |-> [BS |-> Len(bs) + 1, SP |-> Len(sp) + 1,
                   PartitionsSpecified |-> fn.PartitionsSpecified]]

\* boundedSumFloat64Fn.CreateAccumulator
CreateAccumulatorFloat64(fn, bs, sp) ==
    [bs  |-> Append(bs, NewBoundedSum(
                 [Epsilon |-> fn.EpsilonNoise, Delta |-> fn.DeltaNoise,
                  MaxPartitionsContributed |-> fn.MaxPartitionsContributed,
                  Lower |-> fn.Lower, Upper |-> fn.Upper, Noise |-> fn.noise])),
     sp  |-> Append(sp, NewPreAggSelectPartition(
                 [Epsilon |-> fn.EpsilonPartitionSelection,
                  Delta |-> fn.DeltaPartitionSelection,
                  MaxPartitionsContributed |-> fn.MaxPartitionsContributed])),
     ret |-> [BS |-> Len(bs) + 1, SP |-> Len(sp) + 1,
              PartitionsSpecified |-> fn.PartitionsSpecified]]

\* AddInput that folds the value in and records no contribution.
AddInputInt64_NoSelection(a, value, bs, sp) ==
    [bs  |-> [bs EXCEPT ![a.BS] = BSAdd(@, value)],
     sp  |-> sp,
     ret |-> a]

\* boundedSumInt64Fn.AddInput
AddInputInt64(a, value, bs, sp) ==
    [bs  |-> [bs EXCEPT ![a.BS] = BSAdd(@, value)],
     sp  |-> [sp EXCEPT ![a.SP] = SPAdd(@)],
     ret |-> a]

\* boundedSumFloat64Fn.AddInput
AddInputFloat64(a, value, bs, sp) ==
    [bs  |-> [bs EXCEPT ![a.BS] = BSAdd(@, value)],
     sp  |-> [sp EXCEPT ![a.SP] = SPAdd(@)],
     ret |-> a]

\* boundedSumInt64Fn.MergeAccumulators
MergeAccumulatorsInt64(a, b, bs, sp) ==
    [bs  |-> [bs EXCEPT ![a.BS] = BSMerge(@, bs[b.BS])],
     sp  |-> [sp EXCEPT ![a.SP] = SPMerge(@, sp[b.SP])],
     exit |-> FALSE,
     ret |-> a]

\* MergeAccumulators that merges the sums and forgets the selection sub-state.
MergeAccumulatorsFloat64_SumOnly(a, b, bs, sp) ==
    [bs  |-> [bs EXCEPT ![a.BS] = BSMerge(@, bs[b.BS])],
     sp  |-> sp,
     exit |-> FALSE,
     ret |-> a]

\* boundedSumFloat64Fn.MergeAccumulators
MergeAccumulatorsFloat64(a, b, bs, sp) ==
    [bs  |-> [bs EXCEPT ![a.BS] = BSMerge(@, bs[b.BS])],
     sp  |-> [sp EXCEPT ![a.SP] = SPMerge(@, sp[b.SP])],
     exit |-> FALSE,
     ret |-> a]

\* ExtractOutput that asks for both conditions instead of either.
ExtractOutputInt64_Both(a, bs, sp, n, keep) ==
    LET result == BSResult(bs[a.BS], n)
    IN  IF a.PartitionsSpecified /\ SPResult(sp[a.SP], keep)
        THEN Ptr(result)
        ELSE Nil

\* boundedSumInt64Fn.ExtractOutput; n and keep are what the two mechanisms drew.
ExtractOutputInt64(a, bs, sp, n, keep) ==
    LET result == BSResult(bs[a.BS], n)
    IN  IF a.PartitionsSpecified \/ SPResult(sp[a.SP], keep)
        THEN Ptr(result)
        ELSE Nil

\* ExtractOutput that looks at the selection decision alone.
ExtractOutputFloat64_IgnoresFlag(a, bs, sp, n, keep) ==
    LET result == BSResult(bs[a.BS], n)
    IN  IF SPResult(sp[a.SP], keep)
        THEN Ptr(result)
        ELSE Nil

\* boundedSumFloat64Fn.ExtractOutput
ExtractOutputFloat64(a, bs, sp, n, keep) ==
    LET result == BSResult(bs[a.BS], n)
    IN  IF a.PartitionsSpecified \/ SPResult(sp[a.SP], keep)
        THEN Ptr(result)
        ELSE Nil

----------------------------------------------------------------------------
(* Postprocessing of the combiner's output, one (key, result) at a time.   *)

\* dropThresholdedPartitionsInt64Fn: the pairs emitted for one (key, r).
dropThresholdedPartitionsInt64Fn(v, r) ==
    IF r.present THEN <<<<v, r.value>>>> ELSE <<>>

dropThresholdedPartitionsFloat64Fn_EmitsNil(v, r) ==
    <<<<v, r.value>>>>

\* dropThresholdedPartitionsFloat64Fn
dropThresholdedPartitionsFloat64Fn(v, r) ==
    IF r.present THEN <<<<v, r.value>>>> ELSE <<>>

\* CorrectToInt64: return key, *v. Dereferencing a nil v panics.
CorrectToInt64(key, v) ==
    IF v.present THEN [panic |-> FALSE, k |-> key, value |-> v.value]
                 ELSE [panic |-> TRUE, k |-> <<>>, value |-> 0]

\* CorrectToFloat64
CorrectToFloat64(key, v) ==
    IF v.present THEN [panic |-> FALSE, k |-> key, value |-> v.value]
                 ELSE [panic |-> TRUE, k |-> <<>>, value |-> 0]

\* findCorrectToFn: the unwrap function of a value kind.
findCorrectToFn(kind, key, v) ==
    IF kind = Int64Kind THEN CorrectToInt64(key, v) ELSE CorrectToFloat64(key, v)

\* findDropThresholdedPartitionsFn
findDropThresholdedPartitionsFn(kind, v, r) ==
    IF kind = Int64Kind THEN dropThresholdedPartitionsInt64Fn(v, r)
                        ELSE dropThresholdedPartitionsFloat64Fn(v, r)

clampNegativePartitionsInt64Fn_KeepsSign(v, r) ==
    <<v, r>>

\* clampNegativePartitionsInt64Fn
clampNegativePartitionsInt64Fn(v, r) ==
    IF r < 0 THEN <<v, 0>> ELSE <<v, r>>

\* clampNegativePartitionsFloat64Fn
clampNegativePartitionsFloat64Fn(v, r) ==
    IF r < 0 THEN <<v, 0>> ELSE <<v, r>>

\* findClampNegativePartitionsFn
findClampNegativePartitionsFn(kind, v, r) ==
    IF kind = Int64Kind THEN clampNegativePartitionsInt64Fn(v, r)
                        ELSE clampNegativePartitionsFloat64Fn(v, r)

\* No postprocessing step has been applied.
NoPost == [step |-> "none", key |-> <<>>, r |-> 0, emitted |-> <<>>]

----------------------------------------------------------------------------
(* The combiner protocol as the engine drives it for one combiner, of      *)
(* either value kind and with either value of partitionsSpecified.         *)

NoAcc  == [BS |-> 0, SP |-> 0, PartitionsSpecified |-> FALSE]
NoOut  == [acc |-> 0, a |-> NoAcc, out |-> Nil, bsResult |-> 0, spResult |-> FALSE]

Epsilon0 == <<1, 0>>
Delta0   == <<1, -3>>

EmptyBag == [v \in Values |-> 0]

NewFn(vKind, lu, flag) ==
    IF vKind = Int64Kind
    THEN newBoundedSumInt64Fn(Epsilon0, Delta0, 1, lu[1], lu[2], LaplaceNoise, flag)
    ELSE newBoundedSumFloat64Fn(Epsilon0, Delta0, 1, lu[1], lu[2], LaplaceNoise, flag)

\* The state of the parts of the program a specification does not run.
CombIdle ==
    /\ fns = <<>>
    /\ accs = <<>>
    /\ bsHeap = <<>>
    /\ spHeap = <<>>
    /\ lastOut = NoOut
    /\ exited = FALSE
    /\ post = NoPost
    /\ creator = <<>>
    /\ inputsOf = <<>>
    /\ leavesOf = <<>>
    /\ live = {}
    /\ adds = 0

BoundIdle ==
    /\ kvCol = <<>>
    /\ contributionLimit = 0
    /\ fed = 0
    /\ sampled = [k \in GroupKeys |-> <<>>]
    /\ flattened = {}
    /\ bounded = <<>>

NoArgs ==
    [epsilon |-> DZero, delta |-> DZero, maxPartitionsContributed |-> 0,
     lower |-> 0, upper |-> 0, noiseKind |-> UnknownNoise, vKind |-> "none",
     partitionsSpecified |-> FALSE, call |-> "none"]

NewIdle == newArgs = NoArgs

SetIdle ==
    /\ mapFn = "none"
    /\ partitionsCol = <<>>
    /\ mapFed = 0
    /\ mapAccs = <<>>
    /\ mapHeap = <<>>
    /\ mapLive = {}
    /\ mapOut = 0
    /\ keysOf = <<>>

\* No decodePair DoFn has been set up.
DecIdle == dec = [kind |-> "none", pairs |-> <<>>, todo |-> {}, out |-> <<>>]

TwinIdle ==
    /\ randSource = <<>>
    /\ twin = [col |-> <<>>, limit |-> 0, run |-> <<>>]

PipeIdle ==
    /\ flavour = "none"
    /\ partitions = <<>>
    /\ pcol = <<>>
    /\ dropStage = "start"
    /\ partitionsMap = [k \in {} |-> TRUE]
    /\ pruneTodo = {}
    /\ filtered = <<>>
    /\ pipeStage = "filter"
    /\ kept = {}
    /\ aggregated = {}
    /\ finalOut = <<>>

CombInit ==
    /\ \E vKind \in {Int64Kind, Float64Kind}, lu \in ClampBounds, flag \in BOOLEAN :
          fns = <<SetupFn(NewFn(vKind, lu, flag).fn)>>
    /\ accs = <<>>
    /\ bsHeap = <<>>
    /\ spHeap = <<>>
    /\ lastOut = NoOut
    /\ exited = FALSE
    /\ post = NoPost
    /\ creator = <<>>
    /\ inputsOf = <<>>
    /\ leavesOf = <<>>
    /\ live = {}
    /\ adds = 0

\* The engine asks combiner f for a new accumulator.
CreateAccumulator(f) ==
    /\ ~exited
    /\ Len(accs) < MaxAccs
    /\ LET r == IF fns[f].vKind = Int64Kind
                THEN CreateAccumulatorInt64(fns[f], bsHeap, spHeap)
                ELSE CreateAccumulatorFloat64(fns[f], bsHeap, spHeap)
       IN  /\ bsHeap' = r.bs
           /\ spHeap' = r.sp
           /\ accs' = Append(accs, r.ret)
    /\ creator' = Append(creator, f)
    /\ inputsOf' = Append(inputsOf, EmptyBag)
    /\ leavesOf' = Append(leavesOf, {Len(accs) + 1})
    /\ live' = live \cup {Len(accs) + 1}
    /\ lastOut' = NoOut
    /\ post' = NoPost
    /\ UNCHANGED <<fns, exited, adds>>
    /\ UNCHANGED nonCombVars

\* The engine folds one value into accumulator i and keeps what is returned.
AddInput(i, value) ==
    /\ ~exited
    /\ i \in live
    /\ adds < MaxAdds
    /\ LET r == IF fns[creator[i]].vKind = Int64Kind
                THEN AddInputInt64(accs[i], value, bsHeap, spHeap)
                ELSE AddInputFloat64(accs[i], value, bsHeap, spHeap)
       IN  /\ bsHeap' = r.bs
           /\ spHeap' = r.sp
           /\ accs' = [accs EXCEPT ![i] = r.ret]
    /\ inputsOf' = [inputsOf EXCEPT ![i][value] = @ + 1]
    /\ adds' = adds + 1
    /\ lastOut' = NoOut
    /\ post' = NoPost
    /\ UNCHANGED <<fns, exited, creator, leavesOf, live>>
    /\ UNCHANGED nonCombVars

\* The engine merges accumulator j into accumulator i, keeps what is
\* returned in place of i and drops j.
MergeAccumulators(i, j) ==
    /\ ~exited
    /\ i \in live
    /\ j \in live
    /\ i # j
    /\ LET r == IF fns[creator[i]].vKind = Int64Kind
                THEN MergeAccumulatorsInt64(accs[i], accs[j], bsHeap, spHeap)
                ELSE MergeAccumulatorsFloat64(accs[i], accs[j], bsHeap, spHeap)
       IN  /\ bsHeap' = r.bs
           /\ spHeap' = r.sp
           /\ accs' = [accs EXCEPT ![i] = r.ret]
           /\ exited' = r.exit
    /\ inputsOf' = [inputsOf EXCEPT
                      ![i] = [v \in Values |-> inputsOf[i][v] + inputsOf[j][v]],
                      ![j] = EmptyBag]
    /\ leavesOf' = [leavesOf EXCEPT ![i] = @ \cup leavesOf[j], ![j] = {}]
    /\ live' = live \ {j}
    /\ lastOut' = NoOut
    /\ post' = NoPost
    /\ UNCHANGED <<fns, creator, adds>>
    /\ UNCHANGED nonCombVars

\* The engine extracts the output of accumulator i, once; n and keep are the
\* noise and the selection decision the mechanisms draw.
ExtractOutput(i, n, keep) ==
    /\ ~exited
    /\ i \in live
    /\ LET a   == accs[i]
           out == IF fns[creator[i]].vKind = Int64Kind
                  THEN ExtractOutputInt64(a, bsHeap, spHeap, n, keep)
                  ELSE ExtractOutputFloat64(a, bsHeap, spHeap, n, keep)
       IN  lastOut' = [acc |-> i, a |-> a, out |-> out,
                       bsResult |-> BSResult(bsHeap[a.BS], n),
                       spResult |-> SPResult(spHeap[a.SP], keep)]
    /\ live' = live \ {i}
    /\ inputsOf' = [inputsOf EXCEPT ![i] = EmptyBag]
    /\ leavesOf' = [leavesOf EXCEPT ![i] = {}]
    /\ post' = NoPost
    /\ UNCHANGED <<fns, accs, bsHeap, spHeap, exited, creator, adds>>
    /\ UNCHANGED nonCombVars

\* The accumulators the engine asks for when its outputs are postprocessed.
MaxPostAccs == 2

\* The partition keys the postprocessed outputs belong to.
PostKeys == {KeyA, KeyB}

\* The value kind of the combiner whose output lastOut holds.
KindOfLastOut == fns[creator[lastOut.acc]].vKind

\* The drop step processes the (key, result) pair ExtractOutput just produced
\* for partition `key`.
DropThresholdedPartitions(key) ==
    /\ ~exited
    /\ lastOut.acc # 0
    /\ post.step = "none"
    /\ post' = [step |-> "drop", key |-> key, r |-> 0,
                emitted |-> findDropThresholdedPartitionsFn(KindOfLastOut, key, lastOut.out)]
    /\ UNCHANGED <<fns, accs, bsHeap, spHeap, lastOut, exited,
                   creator, inputsOf, leavesOf, live, adds>>
    /\ UNCHANGED nonCombVars

\* The unwrap step processes the (key, result) pair ExtractOutput just
\* produced for partition `key`; a nil result makes it panic.
CorrectTo(key) ==
    /\ ~exited
    /\ lastOut.acc # 0
    /\ post.step = "none"
    /\ LET c == findCorrectToFn(KindOfLastOut, key, lastOut.out)
       IN  /\ exited' = c.panic
           /\ post' = [step |-> "unwrap", key |-> key, r |-> 0,
                       emitted |-> IF c.panic THEN <<>> ELSE <<<<c.k, c.value>>>>]
    /\ UNCHANGED <<fns, accs, bsHeap, spHeap, lastOut,
                   creator, inputsOf, leavesOf, live, adds>>
    /\ UNCHANGED nonCombVars

\* The clamp step processes the (key, value) pair the drop or unwrap step
\* emitted.
ClampNegativePartitions ==
    /\ ~exited
    /\ post.step \in {"drop", "unwrap"}
    /\ post.emitted # <<>>
    /\ LET kv == post.emitted[1]
       IN  post' = [step |-> "clamp", key |-> post.key, r |-> kv[2],
                    emitted |-> <<findClampNegativePartitionsFn(KindOfLastOut, kv[1], kv[2])>>]
    /\ UNCHANGED <<fns, accs, bsHeap, spHeap, lastOut, exited,
                   creator, inputsOf, leavesOf, live, adds>>
    /\ UNCHANGED nonCombVars

CombNext ==
    \/ \E f \in DOMAIN fns : CreateAccumulator(f)
    \/ \E i \in live, value \in Values : AddInput(i, value)
    \/ \E i \in live, j \in live : MergeAccumulators(i, j)
    \/ \E i \in live, n \in Noises, keep \in BOOLEAN : ExtractOutput(i, n, keep)

Init == CombInit /\ BoundIdle /\ NewIdle /\ SetIdle /\ PipeIdle /\ TwinIdle /\ DecIdle

Spec == Init /\ [][CombNext]_vars

\* The combiner followed by the postprocessing of what it extracts.
PostNext ==
    \/ \E f \in DOMAIN fns : Len(accs) < MaxPostAccs /\ CreateAccumulator(f)
    \/ \E i \in live, value \in Values : AddInput(i, value)
    \/ \E i \in live, j \in live : MergeAccumulators(i, j)
    \/ \E i \in live, n \in Noises, keep \in BOOLEAN : ExtractOutput(i, n, keep)
    \/ \E key \in PostKeys : DropThresholdedPartitions(key)
    \/ \E key \in PostKeys : CorrectTo(key)
    \/ ClampNegativePartitions

InitPost == CombInit /\ BoundIdle /\ NewIdle /\ SetIdle /\ PipeIdle /\ TwinIdle /\ DecIdle

SpecPost == InitPost /\ [][PostNext]_vars

----------------------------------------------------------------------------
(* MergeAccumulators as a function of its two arguments: the accumulators  *)
(* of two combiners of the same value kind, budget and bounds, each with   *)
(* its own partitionsSpecified flag, each filled by its own AddInput calls.*)

AddInputOf(vKind, a, value, bs, sp) ==
    IF vKind = Int64Kind THEN AddInputInt64(a, value, bs, sp)
                         ELSE AddInputFloat64(a, value, bs, sp)

CreateAccumulatorOf(fn, bs, sp) ==
    IF fn.vKind = Int64Kind THEN CreateAccumulatorInt64(fn, bs, sp)
                            ELSE CreateAccumulatorFloat64(fn, bs, sp)

\* AddInput for each value of xs in turn, on the accumulator returned before.
RECURSIVE AddAll(_, _, _, _, _)
AddAll(vKind, a, xs, bs, sp) ==
    IF xs = <<>>
    THEN [bs |-> bs, sp |-> sp, ret |-> a]
    ELSE LET r == AddInputOf(vKind, a, Head(xs), bs, sp)
         IN  AddAll(vKind, r.ret, Tail(xs), r.bs, r.sp)

InputSeqs == UNION {[1..n -> Values] : n \in 0..MaxAdds}

BagOf(xs) == [v \in Values |-> Cardinality({k \in DOMAIN xs : xs[k] = v})]

MergeInit ==
    /\ \E vKind \in {Int64Kind, Float64Kind}, lu \in ClampBounds,
          f1 \in BOOLEAN, f2 \in BOOLEAN, xs1 \in InputSeqs, xs2 \in InputSeqs :
          LET fn1 == SetupFn(NewFn(vKind, lu, f1).fn)
              fn2 == SetupFn(NewFn(vKind, lu, f2).fn)
              c1  == CreateAccumulatorOf(fn1, <<>>, <<>>)
              a1  == AddAll(vKind, c1.ret, xs1, c1.bs, c1.sp)
              c2  == CreateAccumulatorOf(fn2, a1.bs, a1.sp)
              a2  == AddAll(vKind, c2.ret, xs2, c2.bs, c2.sp)
          IN  /\ fns = <<fn1, fn2>>
              /\ accs = <<a1.ret, a2.ret>>
              /\ bsHeap = a2.bs
              /\ spHeap = a2.sp
              /\ inputsOf = <<BagOf(xs1), BagOf(xs2)>>
    /\ lastOut = NoOut
    /\ exited = FALSE
    /\ post = NoPost
    /\ creator = <<1, 2>>
    /\ leavesOf = <<{1}, {2}>>
    /\ live = {1, 2}
    /\ adds = 0

MergeNext == \E i \in live, j \in live : MergeAccumulators(i, j)

InitMerge == MergeInit /\ BoundIdle /\ NewIdle /\ SetIdle /\ PipeIdle /\ TwinIdle /\ DecIdle

SpecMerge == InitMerge /\ [][MergeNext]_vars

----------------------------------------------------------------------------
(* Properties of the combiner protocol.                                    *)

\* What the sum sub-state must hold for a bag of inputs, whatever the order
\* and the grouping they were folded in.
ClampedTo(v, lo, hi) == IF v < lo THEN lo ELSE IF v > hi THEN hi ELSE v

RECURSIVE SumOver(_, _, _, _)
SumOver(S, bag, lo, hi) ==
    IF S = {} THEN 0
    ELSE LET v == CHOOSE x \in S : TRUE
         IN  bag[v] * ClampedTo(v, lo, hi) + SumOver(S \ {v}, bag, lo, hi)

RECURSIVE SizeOver(_, _)
SizeOver(S, bag) ==
    IF S = {} THEN 0
    ELSE LET v == CHOOSE x \in S : TRUE IN bag[v] + SizeOver(S \ {v}, bag)

ExtractOutputOf(vKind, a, bs, sp, n, keep) ==
    IF vKind = Int64Kind THEN ExtractOutputInt64(a, bs, sp, n, keep)
                         ELSE ExtractOutputFloat64(a, bs, sp, n, keep)

\* C1: for both combiners ExtractOutput returns the noised sum, a present
\* value equal to the sum sub-state's Result, whenever PartitionsSpecified
\* is true or the selection sub-state's Result is true, and returns nil
\* exactly when PartitionsSpecified is false and the selection Result is false.
C1_ExtractOutput ==
    lastOut.acc # 0 =>
        /\ (lastOut.a.PartitionsSpecified \/ lastOut.spResult)
              => lastOut.out = [present |-> TRUE, value |-> lastOut.bsResult]
        /\ (~lastOut.out.present)
              <=> (~lastOut.a.PartitionsSpecified /\ ~lastOut.spResult)

\* A combiner built with PartitionsSpecified = true returned the noised sum
\* of an accumulator holding inputs although the selection said no.
C1_Witness ==
    /\ lastOut.acc # 0
    /\ lastOut.a.PartitionsSpecified
    /\ ~lastOut.spResult
    /\ lastOut.out.present
    /\ lastOut.out.value = lastOut.bsResult
    /\ bsHeap[lastOut.a.BS].sum > 0

\* C2: whatever the split of a bag of inputs over accumulators of one
\* combiner, the order of the AddInput calls and the shape and argument
\* order of the merge tree, an accumulator holds the sum of the clamped
\* inputs, their count and the combiner's flag: its sub-states and its
\* flag depend on the bag alone, and so does ExtractOutput under a no-op
\* noise.
C2_MergeOrderIndependent ==
    /\ \A i \in live :
          LET fn == fns[creator[i]] IN
          /\ bsHeap[accs[i].BS].sum =
                 SumOver(Values, inputsOf[i], fn.Lower, fn.Upper)
          /\ spHeap[accs[i].SP].idCount = SizeOver(Values, inputsOf[i])
          /\ accs[i].PartitionsSpecified = fn.PartitionsSpecified
    /\ \A i \in live, j \in live :
          inputsOf[i] = inputsOf[j] =>
              /\ bsHeap[accs[i].BS] = bsHeap[accs[j].BS]
              /\ spHeap[accs[i].SP] = spHeap[accs[j].SP]
              /\ accs[i].PartitionsSpecified = accs[j].PartitionsSpecified
              /\ \A keep \in BOOLEAN :
                    ExtractOutputOf(fns[creator[i]].vKind, accs[i], bsHeap, spHeap, 0, keep)
                  = ExtractOutputOf(fns[creator[j]].vKind, accs[j], bsHeap, spHeap, 0, keep)

\* Three accumulators were merged into one that holds two inputs, next to
\* nothing else.
C2_Witness ==
    \E i \in live :
        /\ live = {i}
        /\ Cardinality(leavesOf[i]) = 3
        /\ SizeOver(Values, inputsOf[i]) = 2
        /\ bsHeap[accs[i].BS].sum > 0

\* C3: MergeAccumulators(a, b) with a.PartitionsSpecified different from
\* b.PartitionsSpecified is a fatal error: no merged accumulator is returned.
C3_MismatchIsFatal ==
    (Cardinality(live) = 1 /\ Len(accs) = 2
       /\ accs[1].PartitionsSpecified # accs[2].PartitionsSpecified) => exited

\* C4: the PartitionsSpecified flag of an accumulator is the flag its
\* combiner was constructed with, in every state, and no call changes the
\* flag of an accumulator: AddInput and MergeAccumulators return an
\* accumulator with the flag of the one they were given.
C4_FlagNeverChanges ==
    /\ [](\A i \in DOMAIN accs :
             accs[i].PartitionsSpecified = fns[creator[i]].PartitionsSpecified)
    /\ [][\A i \in DOMAIN accs :
             accs'[i].PartitionsSpecified = accs[i].PartitionsSpecified]_vars

\* An accumulator of a combiner built with PartitionsSpecified = true went
\* through AddInput and MergeAccumulators and still has the flag.
C4_Witness ==
    \E i \in live :
        /\ Cardinality(leavesOf[i]) >= 2
        /\ SizeOver(Values, inputsOf[i]) >= 1
        /\ fns[creator[i]].PartitionsSpecified
        /\ accs[i].PartitionsSpecified

----------------------------------------------------------------------------
(* Contribution bounding: boundContributions is top.LargestPerKey with     *)
(* randBool as the order, followed by flattenValuesFn.                     *)

\* A randBool that looks at the records it is given.
randBool_UsesData(x, y, u) == (u + x + y) % 2 = 0

\* randBool; u is the value rand.Uint32() returned.
randBool(x, y, u) == u % 2 = 0

\* top.LargestPerKey, one input value: the values held for a key are kept
\* in decreasing order of less, at most n of them.  us are the values
\* rand.Uint32() returns for the comparisons of x with the values held.
RECURSIVE InsertAt(_, _, _, _)
InsertAt(list, x, us, i) ==
    IF i > Len(list) \/ ~randBool(x, list[i], us[i])
    THEN SubSeq(list, 1, i - 1) \o <<x>> \o SubSeq(list, i, Len(list))
    ELSE InsertAt(list, x, us, i + 1)

LargestAdd(list, x, n, us) ==
    LET l == InsertAt(list, x, us, 1)
    IN  IF Len(l) > n THEN SubSeq(l, 1, n) ELSE l

\* flattenValuesFn whose loop stops one value early.
flattenValuesFn_StopsEarly(key, values) ==
    [i \in 1..(Len(values) - 1) |-> <<key, values[i]>>]

\* flattenValuesFn: the pairs emitted for one (key, values).
flattenValuesFn(key, values) == [i \in 1..Len(values) |-> <<key, values[i]>>]

BoundInit ==
    /\ kvCol \in UNION {[1..n -> GroupKeys \X RecValues] : n \in 0..MaxRecords}
    /\ contributionLimit \in 1..MaxLimit
    /\ fed = 0
    /\ sampled = [k \in GroupKeys |-> <<>>]
    /\ flattened = {}
    /\ bounded = <<>>

\* top.LargestPerKey(s, kvCol, int(contributionLimit), randBool) takes the
\* next record of kvCol.
LargestPerKey ==
    /\ fed < Len(kvCol)
    /\ LET k == kvCol[fed + 1][1]
           v == kvCol[fed + 1][2]
       IN  \E us \in [1..Len(sampled[k]) -> Uint32Samples] :
              sampled' = [sampled EXCEPT ![k] = LargestAdd(@, v, contributionLimit, us)]
    /\ fed' = fed + 1
    /\ UNCHANGED <<kvCol, contributionLimit, flattened, bounded>>
    /\ UNCHANGED nonBoundVars

\* beam.ParDo(s, flattenValuesFn, sampled), one key of sampled.
FlattenValues(k) ==
    /\ fed = Len(kvCol)
    /\ k \notin flattened
    /\ sampled[k] # <<>>
    /\ bounded' = bounded \o flattenValuesFn(k, sampled[k])
    /\ flattened' = flattened \cup {k}
    /\ UNCHANGED <<kvCol, contributionLimit, fed, sampled>>
    /\ UNCHANGED nonBoundVars

\* boundContributions
BoundNext ==
    \/ LargestPerKey
    \/ \E k \in GroupKeys : FlattenValues(k)

InitBound == BoundInit /\ CombIdle /\ NewIdle /\ SetIdle /\ PipeIdle /\ TwinIdle /\ DecIdle

SpecBound == InitBound /\ [][BoundNext]_vars

\* boundContributions has returned its whole output.
BoundDone ==
    /\ fed = Len(kvCol)
    /\ \A k \in GroupKeys : sampled[k] # <<>> => k \in flattened

CountOf(col, r) == Cardinality({i \in DOMAIN col : col[i] = r})
CountKey(col, k) == Cardinality({i \in DOMAIN col : col[i][1] = k})
MinOf(a, b) == IF a < b THEN a ELSE b

\* C5: boundContributions with limit L outputs, for every grouping key with
\* n input records, exactly min(L, n) records of that key, each of them an
\* input record of that key, none more often than the input has it.
C5_BoundContributions ==
    BoundDone =>
        /\ \A k \in GroupKeys :
              CountKey(bounded, k) = MinOf(contributionLimit, CountKey(kvCol, k))
        /\ \A r \in GroupKeys \X RecValues :
              CountOf(bounded, r) <= CountOf(kvCol, r)

\* One key had more records than the limit and kept exactly the limit, the
\* other had fewer and kept all of them.
C5_Witness ==
    /\ BoundDone
    /\ \E k1 \in GroupKeys, k2 \in GroupKeys :
          /\ CountKey(kvCol, k1) > contributionLimit
          /\ CountKey(bounded, k1) = contributionLimit
          /\ CountKey(kvCol, k2) > 0
          /\ CountKey(kvCol, k2) < contributionLimit
          /\ CountKey(bounded, k2) = CountKey(kvCol, k2)

----------------------------------------------------------------------------
(* Construction of a combiner: the budget split.                           *)

NewInit ==
    /\ \E epsilon \in Epsilons, delta \in Deltas, lu \in NewBounds,
          noiseKind \in {GaussianNoise, LaplaceNoise, UnknownNoise},
          vKind \in {Int64Kind, Float64Kind, StringKind}, partitionsSpecified \in BOOLEAN,
          call \in {"newBoundedSumFn", "newBoundedSumInt64Fn", "newBoundedSumFloat64Fn"} :
          /\ call = "newBoundedSumInt64Fn" => vKind = Int64Kind
          /\ call = "newBoundedSumFloat64Fn" => vKind = Float64Kind
          /\ newArgs = [epsilon |-> epsilon, delta |-> delta,
                        maxPartitionsContributed |-> 1,
                        lower |-> lu[1], upper |-> lu[2], noiseKind |-> noiseKind,
                        vKind |-> vKind, partitionsSpecified |-> partitionsSpecified,
                        call |-> call]
    /\ fns = <<>>
    /\ accs = <<>>
    /\ bsHeap = <<>>
    /\ spHeap = <<>>
    /\ lastOut = NoOut
    /\ exited = FALSE
    /\ post = NoPost
    /\ creator = <<>>
    /\ inputsOf = <<>>
    /\ leavesOf = <<>>
    /\ live = {}
    /\ adds = 0

\* The constructor called returns a combiner, or exits.
Constructed(r) ==
    /\ exited' = r.exit
    /\ fns' = IF r.exit THEN fns ELSE Append(fns, r.fn)
    /\ UNCHANGED <<accs, bsHeap, spHeap, lastOut, post, creator, inputsOf, leavesOf, live, adds>>
    /\ UNCHANGED <<boundVars, newArgs, setVars, filterVars, pipeVars, twinVars, dec>>

NewBoundedSumInt64Fn ==
    /\ ~exited
    /\ fns = <<>>
    /\ newArgs.call = "newBoundedSumInt64Fn"
    /\ newArgs.vKind = Int64Kind
    /\ Constructed(newBoundedSumInt64Fn(newArgs.epsilon, newArgs.delta,
                       newArgs.maxPartitionsContributed, newArgs.lower, newArgs.upper,
                       newArgs.noiseKind, newArgs.partitionsSpecified))

NewBoundedSumFloat64Fn ==
    /\ ~exited
    /\ fns = <<>>
    /\ newArgs.call = "newBoundedSumFloat64Fn"
    /\ newArgs.vKind = Float64Kind
    /\ Constructed(newBoundedSumFloat64Fn(newArgs.epsilon, newArgs.delta,
                       newArgs.maxPartitionsContributed, newArgs.lower, newArgs.upper,
                       newArgs.noiseKind, newArgs.partitionsSpecified))

\* The caller builds the combiner through newBoundedSumFn.
NewBoundedSumFn ==
    /\ ~exited
    /\ fns = <<>>
    /\ newArgs.call = "newBoundedSumFn"
    /\ Constructed(newBoundedSumFn(newArgs.epsilon, newArgs.delta,
                       newArgs.maxPartitionsContributed, newArgs.lower, newArgs.upper,
                       newArgs.noiseKind, newArgs.vKind, newArgs.partitionsSpecified))

\* The engine sets a combiner that was built up on a worker.
Setup(f) ==
    /\ ~exited
    /\ fns[f].noise = "nil"
    /\ fns' = [fns EXCEPT ![f] = SetupFn(@)]
    /\ UNCHANGED <<accs, bsHeap, spHeap, lastOut, exited, post,
                   creator, inputsOf, leavesOf, live, adds>>
    /\ UNCHANGED nonCombVars

\* A combiner is built, set up and asked for its accumulators.
NewNext ==
    \/ NewBoundedSumInt64Fn
    \/ NewBoundedSumFloat64Fn
    \/ NewBoundedSumFn
    \/ \E f \in DOMAIN fns : Setup(f)
    \/ \E f \in DOMAIN fns : fns[f].noise # "nil" /\ CreateAccumulator(f)

InitNew == NewInit /\ BoundIdle /\ SetIdle /\ PipeIdle /\ TwinIdle /\ DecIdle

SpecNew == InitNew /\ [][NewNext]_vars

\* The split the other constructor computes from the same arguments.
OtherSplit ==
    IF newArgs.vKind = Int64Kind
    THEN newBoundedSumFloat64Fn(newArgs.epsilon, newArgs.delta,
             newArgs.maxPartitionsContributed, newArgs.lower, newArgs.upper,
             newArgs.noiseKind, newArgs.partitionsSpecified).fn
    ELSE newBoundedSumInt64Fn(newArgs.epsilon, newArgs.delta,
             newArgs.maxPartitionsContributed, newArgs.lower, newArgs.upper,
             newArgs.noiseKind, newArgs.partitionsSpecified).fn

\* C6: a combiner built from (epsilon, delta, noiseKind) has EpsilonNoise =
\* EpsilonPartitionSelection = epsilon/2; for Gaussian noise DeltaNoise =
\* DeltaPartitionSelection = delta/2; for Laplace noise DeltaNoise = 0 and
\* DeltaPartitionSelection = delta.  The epsilon parts sum to epsilon, the
\* delta parts to delta, and both constructors compute the same split.
C6_BudgetSplit ==
    fns # <<>> =>
        LET fn == fns[1] IN
        /\ DEq(DAdd(fn.EpsilonNoise, fn.EpsilonNoise), newArgs.epsilon)
        /\ DEq(fn.EpsilonPartitionSelection, fn.EpsilonNoise)
        /\ newArgs.noiseKind = GaussianNoise =>
              /\ DEq(DAdd(fn.DeltaNoise, fn.DeltaNoise), newArgs.delta)
              /\ DEq(fn.DeltaPartitionSelection, fn.DeltaNoise)
        /\ newArgs.noiseKind = LaplaceNoise =>
              /\ DEq(fn.DeltaNoise, DZero)
              /\ DEq(fn.DeltaPartitionSelection, newArgs.delta)
        /\ DEq(DAdd(fn.EpsilonNoise, fn.EpsilonPartitionSelection), newArgs.epsilon)
        /\ DEq(DAdd(fn.DeltaNoise, fn.DeltaPartitionSelection), newArgs.delta)
        /\ DEq(fn.EpsilonNoise, OtherSplit.EpsilonNoise)
        /\ DEq(fn.EpsilonPartitionSelection, OtherSplit.EpsilonPartitionSelection)
        /\ DEq(fn.DeltaNoise, OtherSplit.DeltaNoise)
        /\ DEq(fn.DeltaPartitionSelection, OtherSplit.DeltaPartitionSelection)

\* A float64 combiner was built for Laplace noise from a delta that is not
\* zero: all of delta went to partition selection.
C6_Witness ==
    /\ fns # <<>>
    /\ fns[1].vKind = Float64Kind
    /\ newArgs.noiseKind = LaplaceNoise
    /\ ~DEq(newArgs.delta, DZero)
    /\ DEq(fns[1].DeltaPartitionSelection, newArgs.delta)
    /\ DEq(fns[1].DeltaNoise, DZero)

----------------------------------------------------------------------------
(* The partition set: map[Partition]bool, built by partitionsHashMapFn     *)
(* (or KVpartitionsHashMapFn) from the caller-supplied partition keys.     *)

\* beam.ElementEncoder for a string key: the length, then the bytes.
Encode(key) == <<Len(key)>> \o key

\* Partition{PartitionKey: string(bytes)}
Partition(bytes) == [PartitionKey |-> bytes]

\* make(map[Partition]bool); m[k] = v; m[k] (false when k is not in m).
EmptyMap == [k \in {} |-> TRUE]
MapSet(m, k, v) == [x \in (DOMAIN m) \cup {k} |-> IF x = k THEN v ELSE m[x]]
MapGet(m, k) == IF k \in DOMAIN m THEN m[k] ELSE FALSE

\* for k := range a { b[k] = true }
RECURSIVE MapSetAll(_, _)
MapSetAll(b, ks) ==
    IF ks = {} THEN b
    ELSE LET k == CHOOSE x \in ks : TRUE
         IN  MapSetAll(MapSet(b, k, TRUE), ks \ {k})

\* partitionsHashMapFn.CreateAccumulator
MapCreateAccumulator(heap) ==
    [heap |-> Append(heap, EmptyMap), ret |-> [PartitionMap |-> Len(heap) + 1]]

\* AddInput as a pure function: the key is added to a copy of the map and
\* the argument is left as it was.
MapAddInput_Pure(m, partitionKey, heap) ==
    LET partitionBuf == Encode(partitionKey)
    IN  [heap |-> Append(heap, MapSet(heap[m.PartitionMap], Partition(partitionBuf), TRUE)),
         ret |-> [PartitionMap |-> Len(heap) + 1]]

\* partitionsHashMapFn.AddInput
MapAddInput(m, partitionKey, heap) ==
    LET partitionBuf == Encode(partitionKey)
    IN  [heap |-> [heap EXCEPT ![m.PartitionMap] =
                      MapSet(@, Partition(partitionBuf), TRUE)],
         ret |-> m]

\* MergeAccumulators that returns its first argument, as the other
\* combiners do.
MapMergeAccumulators_ReturnsA(a, b, heap) ==
    [heap |-> [heap EXCEPT ![b.PartitionMap] =
                  MapSetAll(@, DOMAIN heap[a.PartitionMap])],
     ret |-> a]

\* partitionsHashMapFn.MergeAccumulators
MapMergeAccumulators(a, b, heap) ==
    [heap |-> [heap EXCEPT ![b.PartitionMap] =
                  MapSetAll(@, DOMAIN heap[a.PartitionMap])],
     ret |-> b]

\* partitionsHashMapFn.ExtractOutput
MapExtractOutput(m) == m.PartitionMap

\* KVpartitionsHashMapFn.CreateAccumulator
KVMapCreateAccumulator(heap) ==
    [heap |-> Append(heap, EmptyMap), ret |-> [PartitionMap |-> Len(heap) + 1]]

\* KVpartitionsHashMapFn.AddInput
KVMapAddInput(m, partitionKey, heap) ==
    LET partitionBuf == Encode(partitionKey)
    IN  [heap |-> [heap EXCEPT ![m.PartitionMap] =
                      MapSet(@, Partition(partitionBuf), TRUE)],
         ret |-> m]

\* KVpartitionsHashMapFn.MergeAccumulators
KVMapMergeAccumulators(a, b, heap) ==
    [heap |-> [heap EXCEPT ![b.PartitionMap] =
                  MapSetAll(@, DOMAIN heap[a.PartitionMap])],
     ret |-> b]

\* KVpartitionsHashMapFn.ExtractOutput
KVMapExtractOutput(m) == m.PartitionMap

KeySeqs == UNION {[1..n -> PartitionKeys] : n \in 0..MaxKeys}

SetInit ==
    /\ mapFn \in {"partitionsHashMapFn", "KVpartitionsHashMapFn"}
    /\ partitionsCol \in KeySeqs
    /\ mapFed = 0
    /\ mapAccs = <<>>
    /\ mapHeap = <<>>
    /\ mapLive = {}
    /\ mapOut = 0
    /\ keysOf = <<>>

\* The engine asks for a new accumulator.
SetCreateAccumulator ==
    /\ mapOut = 0
    /\ Len(mapAccs) < MaxMapAccs
    /\ LET r == IF mapFn = "partitionsHashMapFn"
                THEN MapCreateAccumulator(mapHeap)
                ELSE KVMapCreateAccumulator(mapHeap)
       IN  /\ mapHeap' = r.heap
           /\ mapAccs' = Append(mapAccs, r.ret)
    /\ mapLive' = mapLive \cup {Len(mapAccs) + 1}
    /\ keysOf' = Append(keysOf, {})
    /\ UNCHANGED <<mapFn, partitionsCol, mapFed, mapOut>>
    /\ UNCHANGED nonSetVars

\* The engine folds the next partition key into accumulator i and keeps
\* what is returned.
SetAddInput(i) ==
    /\ i \in mapLive
    /\ mapFed < Len(partitionsCol)
    /\ LET key == partitionsCol[mapFed + 1]
           r   == IF mapFn = "partitionsHashMapFn"
                  THEN MapAddInput(mapAccs[i], key, mapHeap)
                  ELSE KVMapAddInput(mapAccs[i], key, mapHeap)
       IN  /\ mapHeap' = r.heap
           /\ mapAccs' = [mapAccs EXCEPT ![i] = r.ret]
           /\ keysOf' = [keysOf EXCEPT ![i] = @ \cup {key}]
    /\ mapFed' = mapFed + 1
    /\ UNCHANGED <<mapFn, partitionsCol, mapLive, mapOut>>
    /\ UNCHANGED nonSetVars

\* The engine calls MergeAccumulators(a, b) with the accumulators i and j,
\* keeps what is returned in place of j and drops i.
SetMergeAccumulators(i, j) ==
    /\ i \in mapLive
    /\ j \in mapLive
    /\ i # j
    /\ LET r == IF mapFn = "partitionsHashMapFn"
                THEN MapMergeAccumulators(mapAccs[i], mapAccs[j], mapHeap)
                ELSE KVMapMergeAccumulators(mapAccs[i], mapAccs[j], mapHeap)
       IN  /\ mapHeap' = r.heap
           /\ mapAccs' = [mapAccs EXCEPT ![j] = r.ret]
    /\ keysOf' = [keysOf EXCEPT ![j] = @ \cup keysOf[i], ![i] = {}]
    /\ mapLive' = mapLive \ {i}
    /\ UNCHANGED <<mapFn, partitionsCol, mapFed, mapOut>>
    /\ UNCHANGED nonSetVars

\* All keys are fed and one accumulator is left: the engine extracts the
\* output, once.
SetExtractOutput(i) ==
    /\ mapOut = 0
    /\ mapLive = {i}
    /\ mapFed = Len(partitionsCol)
    /\ mapOut' = IF mapFn = "partitionsHashMapFn"
                 THEN MapExtractOutput(mapAccs[i])
                 ELSE KVMapExtractOutput(mapAccs[i])
    /\ mapLive' = {}
    /\ UNCHANGED <<mapFn, partitionsCol, mapFed, mapAccs, mapHeap, keysOf>>
    /\ UNCHANGED nonSetVars

SetNext ==
    \/ SetCreateAccumulator
    \/ \E i \in mapLive : SetAddInput(i)
    \/ \E i \in mapLive, j \in mapLive : SetMergeAccumulators(i, j)
    \/ \E i \in mapLive : SetExtractOutput(i)

InitSet == SetInit /\ CombIdle /\ BoundIdle /\ NewIdle /\ PipeIdle /\ TwinIdle /\ DecIdle

SpecSet == InitSet /\ [][SetNext]_vars

\* The encoded forms of a set of keys, each as the length and the bytes.
EncodedForms(keys) == {[PartitionKey |-> <<Len(k)>> \o k] : k \in keys}

KeysSupplied == {partitionsCol[n] : n \in DOMAIN partitionsCol}

\* C10: whatever the split of the supplied keys over accumulators and the
\* merge tree, every accumulator maps exactly the encoded forms of the keys
\* folded into it to true, and ExtractOutput of the fully merged
\* accumulator is exactly the set of encoded forms of all supplied keys.
C10_PartitionSetExact ==
    /\ \A i \in mapLive :
          /\ DOMAIN mapHeap[mapAccs[i].PartitionMap] = EncodedForms(keysOf[i])
          /\ \A p \in DOMAIN mapHeap[mapAccs[i].PartitionMap] :
                mapHeap[mapAccs[i].PartitionMap][p]
    /\ mapOut # 0 =>
          /\ DOMAIN mapHeap[mapOut] = EncodedForms(KeysSupplied)
          /\ \A p \in DOMAIN mapHeap[mapOut] : mapHeap[mapOut][p]

\* Three accumulators were merged, a key was supplied twice, and the set
\* extracted has one member per distinct key.
C10_Witness ==
    /\ mapOut # 0
    /\ Len(mapAccs) = 3
    /\ Len(partitionsCol) = 3
    /\ Cardinality(KeysSupplied) = 2
    /\ Cardinality(DOMAIN mapHeap[mapOut]) = 2

----------------------------------------------------------------------------
(* The partition filter: dropUnspecifiedPartitions (sum, mean) and         *)
(* dropUnspecifiedPartitionsForCount (count, distinct id).                 *)

\* The kv codec for an int64 value: its bytes.
EncodeValue(v) == <<v>>

\* beam.ElementDecoder for a string key: fails unless the length fits.
Decode(bytes) ==
    IF Len(bytes) >= 1 /\ bytes[1] = Len(bytes) - 1
    THEN [ok |-> TRUE, x |-> Tail(bytes)]
    ELSE [ok |-> FALSE, x |-> <<>>]

\* beam.Combine(s, newKVPartitionsHashMapFn(partitionT), partitionsCol) and
\* beam.Combine(s, newPartitionsHashMapFn(partitionT), partitionsCol): both
\* constructors return a partitionsHashMapFn.
RECURSIVE MapAddAll(_, _, _)
MapAddAll(m, keys, heap) ==
    IF keys = <<>>
    THEN [heap |-> heap, ret |-> m]
    ELSE LET r == MapAddInput(m, Head(keys), heap)
         IN  MapAddAll(r.ret, Tail(keys), r.heap)

CombinePartitionsMap(partitionsCol_) ==
    LET c == MapCreateAccumulator(<<>>)
        r == MapAddAll(c.ret, partitionsCol_, c.heap)
    IN  r.heap[MapExtractOutput(r.ret)]

\* An index expression that, like operator[] of a C++ map, inserts the key
\* it does not find.
MapLookup_Inserts(m, k) ==
    [v |-> MapGet(m, k),
     m |-> IF k \in DOMAIN m THEN m ELSE MapSet(m, k, FALSE)]

\* The index expression m[k] of Go: its value, and the map after it.
MapLookup(m, k) == [v |-> MapGet(m, k), m |-> m]

\* prunePartitionsFn that never drops.
prunePartitionsFn_KeepsAll(id, pair, p) == <<[id |-> id, pair |-> pair]>>

\* prunePartitionsFn: the records emitted for one input record; p is what
\* partitionsIter reads.
prunePartitionsFn(id, pair, p) ==
    IF MapLookup(p, Partition(pair.K)).v
    THEN <<[id |-> id, pair |-> pair]>>
    ELSE <<>>

\* prunePartitionsFn: the map p after the call.
prunePartitionsFnMap(id, pair, p) == MapLookup(p, Partition(pair.K)).m

\* ProcessElement that looks the key up as it is, not encoded.
prunePartitionsFnForCount_Unencoded(id, partitionKey, p) ==
    IF MapGet(p, Partition(partitionKey))
    THEN <<[id |-> id, partitionKey |-> partitionKey]>>
    ELSE <<>>

\* prunePartitionsFnForCount.ProcessElement
prunePartitionsFnForCount(id, partitionKey, p) ==
    LET partitionBuf == Encode(partitionKey)
    IN  IF MapLookup(p, Partition(partitionBuf)).v
        THEN <<[id |-> id, partitionKey |-> partitionKey]>>
        ELSE <<>>

\* prunePartitionsFnForCount.ProcessElement: the map after the call.
prunePartitionsFnForCountMap(id, partitionKey, p) ==
    LET partitionBuf == Encode(partitionKey)
    IN  MapLookup(p, Partition(partitionBuf)).m

\* The test of dropUnspecifiedPartitions that filters for any source given.
dropUnspecifiedPartitionsFilters_AnySource(partitions_) == Len(partitions_) >= 1

\* dropUnspecifiedPartitions: if len(partitions) == 1
dropUnspecifiedPartitionsFilters(partitions_) == Len(partitions_) = 1

\* dropUnspecifiedPartitionsForCount: if len(partitions) == 1
dropUnspecifiedPartitionsForCountFilters(partitions_) == Len(partitions_) = 1

Filters ==
    IF flavour = "sum" THEN dropUnspecifiedPartitionsFilters(partitions)
                       ELSE dropUnspecifiedPartitionsForCountFilters(partitions)

RawRecords == PrivacyIds \X PartitionKeys \X PipeValues

\* The record of pcol.col for a raw (id, partition, value).
PcolRecord(fl, raw) ==
    IF fl = "sum"
    THEN [id |-> raw[1], pair |-> [K |-> Encode(raw[2]), V |-> EncodeValue(raw[3])]]
    ELSE [id |-> raw[1], partitionKey |-> raw[2]]

PipeInit ==
    /\ flavour \in {"sum", "count"}
    /\ partitions \in PartitionLists
    /\ \E raws \in UNION {[1..n -> RawRecords] : n \in 0..MaxPipeRecs} :
          pcol = [i \in DOMAIN raws |-> PcolRecord(flavour, raws[i])]
    /\ dropStage = "start"
    /\ partitionsMap = [k \in {} |-> TRUE]
    /\ pruneTodo = DOMAIN pcol
    /\ filtered = <<>>
    /\ pipeStage = "filter"
    /\ kept = {}
    /\ aggregated = {}
    /\ finalOut = <<>>
    /\ kvCol = <<>>
    /\ contributionLimit \in 1..MaxLimit
    /\ fed = 0
    /\ sampled = [k \in GroupKeys |-> <<>>]
    /\ flattened = {}
    /\ bounded = <<>>

\* Exactly one source: the partition set is built and broadcast.
DropBuild ==
    /\ dropStage = "start"
    /\ Filters
    /\ partitionsMap' = CombinePartitionsMap(partitions[1])
    /\ dropStage' = "pruning"
    /\ UNCHANGED <<flavour, partitions, pcol, pruneTodo, filtered>>
    /\ UNCHANGED <<pipeVars, nonPipeVars>>

\* The pruning ParDo processes record i of pcol.col.
PruneElement(i) ==
    /\ dropStage = "pruning"
    /\ i \in pruneTodo
    /\ LET emitted == IF flavour = "sum"
                      THEN prunePartitionsFn(pcol[i].id, pcol[i].pair, partitionsMap)
                      ELSE prunePartitionsFnForCount(pcol[i].id, pcol[i].partitionKey,
                                                     partitionsMap)
       IN  filtered' = filtered \o [n \in DOMAIN emitted |-> [src |-> i, rec |-> emitted[n]]]
    /\ partitionsMap' = IF flavour = "sum"
                        THEN prunePartitionsFnMap(pcol[i].id, pcol[i].pair, partitionsMap)
                        ELSE prunePartitionsFnForCountMap(pcol[i].id, pcol[i].partitionKey,
                                                          partitionsMap)
    /\ pruneTodo' = pruneTodo \ {i}
    /\ UNCHANGED <<flavour, partitions, pcol, dropStage>>
    /\ UNCHANGED <<pipeVars, nonPipeVars>>

\* No source or several: pcol.col is returned as it is.
DropPassThrough ==
    /\ dropStage = "start"
    /\ ~Filters
    /\ filtered' = [i \in DOMAIN pcol |-> [src |-> i, rec |-> pcol[i]]]
    /\ pruneTodo' = {}
    /\ dropStage' = "passed"
    /\ UNCHANGED <<flavour, partitions, pcol, partitionsMap>>
    /\ UNCHANGED <<pipeVars, nonPipeVars>>

FilterNext ==
    \/ DropBuild
    \/ \E i \in pruneTodo : PruneElement(i)
    \/ DropPassThrough

InitFilter == PipeInit /\ CombIdle /\ NewIdle /\ SetIdle /\ TwinIdle /\ DecIdle

SpecFilter == InitFilter /\ [][FilterNext]_vars

\* dropUnspecifiedPartitions has returned its whole output.
FilterDone == dropStage # "start" /\ pruneTodo = {}

\* The encoded form of the partition key of a record: the length, then the
\* bytes of the key.
EncodedKeyOf(rec) ==
    IF flavour = "sum" THEN rec.pair.K
                       ELSE <<Len(rec.partitionKey)>> \o rec.partitionKey

InPartitionSet(bytes) ==
    /\ [PartitionKey |-> bytes] \in DOMAIN partitionsMap
    /\ partitionsMap[[PartitionKey |-> bytes]]

EmittedFrom(i) == {n \in DOMAIN filtered : filtered[n].src = i}

\* C8: in the filter phase, every record processed is emitted exactly once
\* and unchanged if the encoded form of its partition key is a member of the
\* broadcast set, and not at all otherwise, for both filters.
C8_FilterByEncodedKey ==
    dropStage = "pruning" =>
        \A i \in (DOMAIN pcol) \ pruneTodo :
            /\ InPartitionSet(EncodedKeyOf(pcol[i])) =>
                  /\ Cardinality(EmittedFrom(i)) = 1
                  /\ \A n \in EmittedFrom(i) : filtered[n].rec = pcol[i]
            /\ ~InPartitionSet(EncodedKeyOf(pcol[i])) => EmittedFrom(i) = {}

\* The count-style filter has processed two records, one with a key of the
\* set, which it emitted, and one with another key, which it dropped.
C8_Witness ==
    /\ flavour = "count"
    /\ dropStage = "pruning"
    /\ pruneTodo = {}
    /\ Len(pcol) = 2
    /\ Len(filtered) = 1
    /\ partitionsMap # [k \in {} |-> TRUE]

\* C9: with no source or with two or more sources, both functions return
\* the input collection unchanged; they filter only with exactly one source.
C9_PassThrough ==
    /\ (FilterDone /\ Len(partitions) # 1) =>
          /\ dropStage = "passed"
          /\ [n \in DOMAIN filtered |-> filtered[n].rec] = pcol
    /\ (dropStage = "pruning") => Len(partitions) = 1

\* Two sources were given, neither with key "c", and a record of partition
\* "c" passed.
C9_Witness ==
    /\ dropStage = "passed"
    /\ Len(partitions) = 2
    /\ \A n \in DOMAIN partitions : \A m \in DOMAIN partitions[n] : partitions[n][m] # KeyC
    /\ \E n \in DOMAIN filtered : EncodedKeyOf(filtered[n].rec) = <<1, 99>>

----------------------------------------------------------------------------
(* The aggregation after the filter, as the specification wires it:        *)
(* contribution bounding per privacy unit, then, when the partitions are   *)
(* specified, one zero-valued record per specified key, then the combiner  *)
(* per partition key and the postprocessing of its output.                 *)

\* prepareAddPartitionsInt64Fn
prepareAddPartitionsInt64Fn(partitionKey) == <<partitionKey, 0>>

\* prepareAddPartitionsFloat64Fn
prepareAddPartitionsFloat64Fn(partitionKey) == <<partitionKey, 0>>

\* The partition key and the value a filtered record carries: a sum record
\* has them encoded in its pair, a count record counts for one.
KeyOfRec(rec) ==
    IF flavour = "sum" THEN Decode(rec.pair.K).x ELSE rec.partitionKey

ValueOfRec(rec) ==
    IF flavour = "sum" THEN rec.pair.V[1] ELSE 1

\* Contribution bounding returns, for each privacy unit with n records,
\* min(contributionLimit, n) of them.
BoundedSelections ==
    {S \in SUBSET (DOMAIN filtered) :
        \A u \in PrivacyIds :
            LET mine == {n \in DOMAIN filtered : filtered[n].rec.id = u}
            IN  Cardinality(S \cap mine) =
                    IF Cardinality(mine) < contributionLimit
                    THEN Cardinality(mine) ELSE contributionLimit}

PipeBound ==
    /\ pipeStage = "filter"
    /\ FilterDone
    /\ kept' \in BoundedSelections
    /\ pipeStage' = "aggregate"
    /\ UNCHANGED <<aggregated, finalOut>>
    /\ UNCHANGED <<filterVars, nonPipeVars>>

\* The partitions are specified when exactly one source was given.
PartitionsSpecified == Len(partitions) = 1

\* The zero-valued records added for the specified partition keys.
AddedPartitions ==
    IF PartitionsSpecified
    THEN [n \in DOMAIN partitions[1] |-> prepareAddPartitionsInt64Fn(partitions[1][n])]
    ELSE <<>>

\* The values grouped under partition key k: those of the records kept and
\* those of the records added.
RECURSIVE ValuesOfKept(_, _)
ValuesOfKept(S, k) ==
    IF S = {} THEN <<>>
    ELSE LET n == CHOOSE x \in S : TRUE
         IN  (IF KeyOfRec(filtered[n].rec) = k
              THEN <<ValueOfRec(filtered[n].rec)>> ELSE <<>>)
             \o ValuesOfKept(S \ {n}, k)

RECURSIVE ValuesOfAdded(_, _)
ValuesOfAdded(added, k) ==
    IF added = <<>> THEN <<>>
    ELSE (IF Head(added)[1] = k THEN <<Head(added)[2]>> ELSE <<>>)
         \o ValuesOfAdded(Tail(added), k)

KeysToAggregate ==
    {KeyOfRec(filtered[n].rec) : n \in kept}
      \cup {AddedPartitions[n][1] : n \in DOMAIN AddedPartitions}

\* The combiner for partition key k and the postprocessing of its output;
\* n and keep are what the noise and the selection mechanism draw.
AggregateKey(k, n, keep) ==
    /\ pipeStage = "aggregate"
    /\ k \in KeysToAggregate \ aggregated
    /\ \E lu \in ClampBounds :
          LET fn  == SetupFn(newBoundedSumInt64Fn(Epsilon0, Delta0, contributionLimit,
                                 lu[1], lu[2], LaplaceNoise, PartitionsSpecified).fn)
              c   == CreateAccumulatorInt64(fn, <<>>, <<>>)
              r   == AddAll(Int64Kind, c.ret,
                            ValuesOfKept(kept, k) \o ValuesOfAdded(AddedPartitions, k),
                            c.bs, c.sp)
              out == ExtractOutputInt64(r.ret, r.bs, r.sp, n, keep)
          IN  finalOut' = finalOut \o dropThresholdedPartitionsInt64Fn(k, out)
    /\ aggregated' = aggregated \cup {k}
    /\ UNCHANGED <<pipeStage, kept>>
    /\ UNCHANGED <<filterVars, nonPipeVars>>

PipeNext ==
    \/ DropBuild
    \/ \E i \in pruneTodo : PruneElement(i)
    \/ DropPassThrough
    \/ PipeBound
    \/ \E k \in PartitionKeys, n \in Noises, keep \in BOOLEAN : AggregateKey(k, n, keep)

InitPipe == PipeInit /\ CombIdle /\ NewIdle /\ SetIdle /\ TwinIdle /\ DecIdle

SpecPipe == InitPipe /\ [][PipeNext]_vars

PipeDone == pipeStage = "aggregate" /\ aggregated = KeysToAggregate

OutputKeys == {finalOut[n][1] : n \in DOMAIN finalOut}

SpecifiedKeys == {partitions[1][n] : n \in DOMAIN partitions[1]}

\* C7: with exactly one partition-key source, a partition that is not in it
\* never appears in the final output, whatever records it has: its records
\* are pruned before aggregation; and every partition of the source is in
\* the final output, also when no record carries it.  For the source
\* {a, b}: c never appears, a and b always do.
C7_SpecifiedPartitions ==
    Len(partitions) = 1 =>
        /\ OutputKeys \subseteq SpecifiedKeys
        /\ FilterDone =>
              \A n \in DOMAIN filtered : KeyOfRec(filtered[n].rec) \in SpecifiedKeys
        /\ PipeDone => OutputKeys = SpecifiedKeys
        /\ (PipeDone /\ SpecifiedKeys = {KeyA, KeyB}) =>
              /\ KeyC \notin OutputKeys
              /\ KeyA \in OutputKeys
              /\ KeyB \in OutputKeys

\* The source was {a, b}, every record of the input was of partition c,
\* and the final output has a and b and nothing else.
C7_Witness ==
    /\ PipeDone
    /\ Len(partitions) = 1
    /\ SpecifiedKeys = {KeyA, KeyB}
    /\ Len(pcol) = 2
    /\ \A i \in DOMAIN pcol : EncodedKeyOf(pcol[i]) = <<1, 99>>
    /\ OutputKeys = {KeyA, KeyB}

----------------------------------------------------------------------------
(* Postprocessing: the clamp, drop and unwrap steps applied to what        *)
(* ExtractOutput returned (lastOut).                                       *)

\* The flag the combiner of the accumulator just extracted was built with.
FlagOfLastOut == fns[creator[lastOut.acc]].PartitionsSpecified

\* C11: the clamp step never outputs a negative value: for every (key, r)
\* it returns the key unchanged, with 0 when r < 0 and with r itself when
\* r >= 0, for both value kinds; the r it is given is the value with the
\* noise already added.
C11_ClampNeverNegative ==
    post.step = "clamp" =>
        /\ Len(post.emitted) = 1
        /\ post.emitted[1][1] = post.key
        /\ post.emitted[1][2] >= 0
        /\ post.r < 0 => post.emitted[1][2] = 0
        /\ post.r >= 0 => post.emitted[1][2] = post.r
        /\ post.r = lastOut.bsResult

\* The noise made the result of an accumulator with a non-negative raw sum
\* negative, and the clamp step turned it into 0.
C11_Witness ==
    /\ post.step = "clamp"
    /\ bsHeap[lastOut.a.BS].sum >= 0
    /\ lastOut.bsResult < 0
    /\ post.r < 0
    /\ post.emitted = <<<<post.key, 0>>>>

\* C12: the drop step emits exactly one record (key, value) when the
\* combiner's result is present and no record when it is absent; so a
\* partition whose combiner has PartitionsSpecified = false and whose
\* selection said no is absent from the postprocessed output, and a
\* partition whose combiner has PartitionsSpecified = true is always in it,
\* with its noised sum, whatever the selection said.
C12_DropThresholded ==
    post.step = "drop" =>
        /\ lastOut.out.present => post.emitted = <<<<post.key, lastOut.out.value>>>>
        /\ ~lastOut.out.present => post.emitted = <<>>
        /\ (~FlagOfLastOut /\ ~lastOut.spResult) => post.emitted = <<>>
        /\ FlagOfLastOut => post.emitted = <<<<post.key, lastOut.bsResult>>>>

\* A partition that has contributions, no specified partitions and a
\* selection that said no: the drop step emitted nothing for it.
C12_Witness ==
    /\ post.step = "drop"
    /\ ~FlagOfLastOut
    /\ ~lastOut.spResult
    /\ spHeap[lastOut.a.SP].idCount > 0
    /\ post.emitted = <<>>

\* C20: on the outputs of a combiner built with PartitionsSpecified = true
\* the unwrap step is total: ExtractOutput is present for every accumulator
\* of such a combiner, the unwrap step does not panic, and it returns the
\* key unchanged with the scalar the result wraps.
C20_UnwrapTotal ==
    (lastOut.acc # 0 /\ FlagOfLastOut) =>
        /\ lastOut.out.present
        /\ post.step = "unwrap" =>
              /\ ~exited
              /\ post.emitted = <<<<post.key, lastOut.out.value>>>>

\* The unwrap step ran on the output of an accumulator whose
\* selection said no and whose combiner has specified partitions.
C20_Witness ==
    /\ post.step = "unwrap"
    /\ FlagOfLastOut
    /\ ~lastOut.spResult
    /\ post.emitted = <<<<post.key, lastOut.bsResult>>>>

----------------------------------------------------------------------------
(* AddInput, and the errors that end the construction of a combiner.       *)

\* C13: every AddInput call folds exactly one value, clamped into
\* [lower, upper], into the sum sub-state of its accumulator, records
\* exactly one contribution in its selection sub-state and does not fail;
\* so after any sequence of AddInput and MergeAccumulators calls the raw sum
\* of an accumulator is the sum of the clamped values folded into it and its
\* contribution count is the number of AddInput calls behind it.
C13_AddInputFoldsOne ==
    /\ [][adds' = adds + 1 =>
            \E i \in live, v \in Values :
                LET fn == fns[creator[i]]
                    a  == accs[i]
                IN  /\ inputsOf' = [inputsOf EXCEPT ![i][v] = @ + 1]
                    /\ accs' = accs
                    /\ bsHeap'[a.BS].sum =
                           bsHeap[a.BS].sum + ClampedTo(v, fn.Lower, fn.Upper)
                    /\ spHeap'[a.SP].idCount = spHeap[a.SP].idCount + 1
                    /\ ~exited']_vars
    /\ [](\A i \in live :
             LET fn == fns[creator[i]] IN
             /\ bsHeap[accs[i].BS].sum >= fn.Lower * SizeOver(Values, inputsOf[i])
             /\ bsHeap[accs[i].BS].sum <= fn.Upper * SizeOver(Values, inputsOf[i])
             /\ bsHeap[accs[i].BS].sum =
                    SumOver(Values, inputsOf[i], fn.Lower, fn.Upper)
             /\ spHeap[accs[i].SP].idCount = SizeOver(Values, inputsOf[i]))

\* An accumulator merged from two holds a value below the lower bound and a
\* value above the upper bound: its sum is lower + upper, its count 2.
C13_Witness ==
    \E i \in live :
        /\ Cardinality(leavesOf[i]) = 2
        /\ inputsOf[i][-1] = 1
        /\ inputsOf[i][5] = 1
        /\ bsHeap[accs[i].BS].sum = fns[creator[i]].Lower + fns[creator[i]].Upper
        /\ spHeap[accs[i].SP].idCount = 2

\* C14: a constructor given a noise family that is neither Gaussian nor
\* Laplace ends the process: no combiner is returned, so no accumulator is
\* ever created.
C14_UnknownNoiseIsFatal ==
    /\ [](newArgs.noiseKind \notin {GaussianNoise, LaplaceNoise} =>
             /\ fns = <<>>
             /\ accs = <<>>)
    /\ [][newArgs.noiseKind \notin {GaussianNoise, LaplaceNoise} => exited']_vars

\* newBoundedSumFloat64Fn was called with an unknown noise family and good
\* bounds, and the process is gone.
C14_Witness ==
    /\ newArgs.noiseKind = UnknownNoise
    /\ newArgs.call = "newBoundedSumFloat64Fn"
    /\ newArgs.lower < newArgs.upper
    /\ exited
    /\ fns = <<>>

\* C15: newBoundedSumFn ends the process, returning no combiner, whenever
\* lower >= upper, for both value kinds, before any accumulator exists.
C15_BadBoundsAreFatal ==
    /\ []((newArgs.call = "newBoundedSumFn" /\ newArgs.lower >= newArgs.upper) =>
             /\ fns = <<>>
             /\ accs = <<>>)
    /\ [][(newArgs.call = "newBoundedSumFn" /\ newArgs.lower >= newArgs.upper)
             => exited']_vars

\* newBoundedSumFn was called for int64 values with lower = upper and a
\* known noise family, and the process is gone.
C15_Witness ==
    /\ newArgs.call = "newBoundedSumFn"
    /\ newArgs.vKind = Int64Kind
    /\ newArgs.noiseKind = LaplaceNoise
    /\ newArgs.lower = newArgs.upper
    /\ exited
    /\ fns = <<>>

----------------------------------------------------------------------------
(* Two runs of boundContributions from the same state of the random        *)
(* source.  The inputs of the two runs have the same records in the same   *)
(* order, but for the values of the records of one privacy unit.           *)

MaxTwinRecs == 4
TwinValues   == {5, 8}
TwinSamples  == {0, 7}
ReplacedUnit == "u1"

\* top.LargestPerKey, one input value: the place x takes among the values
\* held, found by comparing it with them in order.
RECURSIVE InsertPos(_, _, _, _)
InsertPos(list, x, us, i) ==
    IF i > Len(list) \/ ~randBool(x, list[i], us[i])
    THEN i
    ELSE InsertPos(list, x, us, i + 1)

\* The number of comparisons, each one call of randBool, made for it.
Comparisons(list, x, us) ==
    LET p == InsertPos(list, x, us, 1)
    IN  IF p > Len(list) THEN Len(list) ELSE p

\* The input positions of the values held, kept in step with the values.
PickAt(picked, idx, p, n) ==
    LET l == SubSeq(picked, 1, p - 1) \o <<idx>> \o SubSeq(picked, p, Len(picked))
    IN  IF Len(l) > n THEN SubSeq(l, 1, n) ELSE l

TwinCols(n) == [1..n -> GroupKeys \X TwinValues]

StartRun ==
    [fed |-> 0, pos |-> 0,
     sampled |-> [k \in GroupKeys |-> <<>>],
     picked  |-> [k \in GroupKeys |-> <<>>]]

TwinInit ==
    /\ randSource = <<>>
    /\ \E n \in 0..MaxTwinRecs, limit \in 1..MaxLimit :
          \E c1 \in TwinCols(n), c2 \in TwinCols(n) :
             /\ \A i \in 1..n :
                   /\ c2[i][1] = c1[i][1]
                   /\ c1[i][1] # ReplacedUnit => c2[i] = c1[i]
             /\ twin = [col |-> <<c1, c2>>, limit |-> limit,
                        run |-> <<StartRun, StartRun>>]

\* top.LargestPerKey(s, kvCol, int(contributionLimit), randBool) of run r
\* takes the next record of its input.  Each comparison is one call of
\* rand.Uint32(): the run reads the source from where it stands, and a
\* value no run has read yet is drawn now.  The second run starts from the
\* same state of the source once the first is done.
TwinLargestPerKey(r) ==
    /\ r = 2 => twin.run[1].fed = Len(twin.col[1])
    /\ twin.run[r].fed < Len(twin.col[r])
    /\ LET run  == twin.run[r]
           idx  == run.fed + 1
           k    == twin.col[r][idx][1]
           v    == twin.col[r][idx][2]
           list == run.sampled[k]
       IN  \E us \in [1..Len(list) -> TwinSamples] :
              LET c == Comparisons(list, v, us)
                  p == InsertPos(list, v, us, 1)
                  fresh == run.pos + c - Len(randSource)
              IN  /\ \A i \in 1..c :
                        run.pos + i <= Len(randSource) => us[i] = randSource[run.pos + i]
                  /\ \A i \in (c + 1)..Len(list) : us[i] = 0
                  /\ randSource' =
                        IF fresh > 0
                        THEN randSource \o [j \in 1..fresh |-> us[c - fresh + j]]
                        ELSE randSource
                  /\ twin' = [twin EXCEPT !.run[r] =
                                [fed |-> idx, pos |-> run.pos + c,
                                 sampled |-> [run.sampled EXCEPT
                                                ![k] = LargestAdd(list, v, twin.limit, us)],
                                 picked  |-> [run.picked EXCEPT
                                                ![k] = PickAt(@, idx, p, twin.limit)]]]
    /\ UNCHANGED nonTwinVars

TwinNext == \E r \in {1, 2} : TwinLargestPerKey(r)

InitTwin == TwinInit /\ CombIdle /\ BoundIdle /\ NewIdle /\ SetIdle /\ PipeIdle /\ DecIdle

SpecTwin == InitTwin /\ [][TwinNext]_vars

\* Both runs have taken their whole input.
TwinDone ==
    /\ twin.run[1].fed = Len(twin.col[1])
    /\ twin.run[2].fed = Len(twin.col[2])

----------------------------------------------------------------------------
(* The broadcast partition set while the filter runs.                      *)

\* C18: the broadcast partition set is read-only after it is built: with
\* the records processed in any order, no ProcessElement call of
\* prunePartitionsFn or prunePartitionsFnForCount adds, removes or changes
\* a member, also when the key it looks up is not in the set; the set is
\* the one built from the caller's keys for the whole run.
C18_PartitionSetReadOnly ==
    /\ [][dropStage = "pruning" => partitionsMap' = partitionsMap]_vars
    /\ [](dropStage = "pruning" =>
             partitionsMap = CombinePartitionsMap(partitions[1]))

\* Two records were processed, one with a key of the set and one with a key
\* that is not in it, and the set is the one that was built.
C18_Witness ==
    /\ dropStage = "pruning"
    /\ pruneTodo = {}
    /\ Len(pcol) = 2
    /\ Len(filtered) = 1
    /\ \E i \in DOMAIN pcol : ~InPartitionSet(EncodedKeyOf(pcol[i]))
    /\ partitionsMap = CombinePartitionsMap(partitions[1])

----------------------------------------------------------------------------
(* Both kinds of combiner, one of them running: what a call changes.       *)

InitCombiners ==
    /\ \/ CombInit /\ SetIdle
       \/ SetInit /\ CombIdle
    /\ BoundIdle /\ NewIdle /\ PipeIdle /\ TwinIdle /\ DecIdle

\* The combiner that was built takes the calls of the engine.
CombinersNext ==
    \/ fns # <<>> /\ CombNext
    \/ mapFn # "none" /\ SetNext

SpecCombiners == InitCombiners /\ [][CombinersNext]_vars

\* The accumulators whose sub-states (whose map) the step changes.
ChangedSums ==
    {k \in DOMAIN accs : \/ bsHeap'[accs[k].BS] # bsHeap[accs[k].BS]
                         \/ spHeap'[accs[k].SP] # spHeap[accs[k].SP]}

ChangedMaps ==
    {k \in DOMAIN mapAccs :
        mapHeap'[mapAccs[k].PartitionMap] # mapHeap[mapAccs[k].PartitionMap]}

\* The step is a call of MergeAccumulators of the bounded-sum combiner, of
\* the partition-set combiner.
IsMerge == live' # live /\ Len(accs') = Len(accs) /\ lastOut'.acc = 0
IsMapMerge == mapLive' # mapLive /\ Len(mapAccs') = Len(mapAccs) /\ mapOut' = mapOut

\* C17, as claimed: AddInput and MergeAccumulators return the updated
\* accumulator and leave the accumulators passed to them unchanged: no call
\* changes the state an accumulator holds.
C17_ArgumentsUnchanged ==
    /\ [][ChangedSums = {} /\ ChangedMaps = {}]_vars
    /\ [](\A i \in live :
             spHeap[accs[i].SP].idCount = SizeOver(Values, inputsOf[i]))

\* C17, amended: AddInput and MergeAccumulators update in place and return
\* the accumulator they updated.  AddInput changes the sub-states (the map)
\* of its argument and returns that argument; MergeAccumulators(a, b) of a
\* bounded-sum combiner folds b into the sub-states of a and returns a;
\* MergeAccumulators(a, b) of the partition-set combiner adds the keys of a
\* to the map of b and returns b, leaving the map of a as it was.  No
\* accumulator that was not passed to the call is changed.
C17_UpdateInPlace ==
    [][/\ adds' = adds + 1 =>
             \E i \in live :
                /\ ChangedSums = {i}
                /\ accs' = accs
                /\ spHeap'[accs[i].SP].idCount = spHeap[accs[i].SP].idCount + 1
       /\ IsMerge =>
             \E i \in live', j \in live \ live' :
                /\ leavesOf'[i] = leavesOf[i] \cup leavesOf[j]
                /\ ChangedSums \subseteq {i, j}
                /\ accs' = accs
                /\ bsHeap'[accs[i].BS].sum =
                       bsHeap[accs[i].BS].sum + bsHeap[accs[j].BS].sum
                /\ spHeap'[accs[i].SP].idCount =
                       spHeap[accs[i].SP].idCount + spHeap[accs[j].SP].idCount
       /\ mapFed' = mapFed + 1 =>
             \E i \in mapLive :
                /\ ChangedMaps \subseteq {i}
                /\ mapAccs' = mapAccs
                /\ DOMAIN mapHeap'[mapAccs[i].PartitionMap] =
                       DOMAIN mapHeap[mapAccs[i].PartitionMap]
                           \cup {Partition(Encode(partitionsCol[mapFed + 1]))}
       /\ IsMapMerge =>
             \E i \in mapLive \ mapLive', j \in mapLive' :
                /\ ChangedMaps \subseteq {j}
                /\ mapAccs' = mapAccs
                /\ DOMAIN mapHeap'[mapAccs[j].PartitionMap] =
                       DOMAIN mapHeap[mapAccs[i].PartitionMap]
                           \cup DOMAIN mapHeap[mapAccs[j].PartitionMap]
      ]_vars

\* MergeAccumulators(a, b) was called on two accumulators that held inputs:
\* the sub-state of a, which was returned, now holds more than it did, and
\* that is more than the sub-state of b holds.
C17_Witness ==
    \E i \in live, j \in DOMAIN accs \ live :
        /\ j \in leavesOf[i]
        /\ bsHeap[accs[j].BS].sum > 0
        /\ bsHeap[accs[i].BS].sum > bsHeap[accs[j].BS].sum
        /\ spHeap[accs[i].SP].idCount = 2

\* The accumulators the step is a call on: those that took an input or
\* were handed over (merged away, extracted).
TouchedSums ==
    {k \in DOMAIN accs : inputsOf'[k] # inputsOf[k] \/ (k \in live /\ k \notin live')}

TouchedMaps ==
    {k \in DOMAIN mapAccs : keysOf'[k] # keysOf[k] \/ (k \in mapLive /\ k \notin mapLive')}

\* C19: accumulators are never shared.  Every CreateAccumulator call returns
\* newly built, empty sum and selection sub-states (a new empty map for the
\* partition-set combiner), so no two accumulators refer to the same
\* sub-state; and with the calls interleaved in any order, a call on some
\* accumulators changes neither the state nor the ExtractOutput result of
\* any other accumulator.
C19_NeverShared ==
    /\ [](/\ \A i \in DOMAIN accs, j \in DOMAIN accs :
                i # j => accs[i].BS # accs[j].BS /\ accs[i].SP # accs[j].SP
          /\ \A i \in DOMAIN mapAccs, j \in DOMAIN mapAccs :
                i # j => mapAccs[i].PartitionMap # mapAccs[j].PartitionMap)
    /\ [][/\ Len(accs') = Len(accs) + 1 =>
                LET a == accs'[Len(accs')]
                IN  /\ a.BS \notin DOMAIN bsHeap
                    /\ a.SP \notin DOMAIN spHeap
                    /\ bsHeap'[a.BS].sum = 0
                    /\ spHeap'[a.SP].idCount = 0
          /\ Len(mapAccs') = Len(mapAccs) + 1 =>
                LET m == mapAccs'[Len(mapAccs')]
                IN  /\ m.PartitionMap \notin DOMAIN mapHeap
                    /\ mapHeap'[m.PartitionMap] = EmptyMap
          /\ \A k \in DOMAIN accs \ TouchedSums :
                /\ accs'[k] = accs[k]
                /\ bsHeap'[accs[k].BS] = bsHeap[accs[k].BS]
                /\ spHeap'[accs[k].SP] = spHeap[accs[k].SP]
                /\ \A n \in Noises, keep \in BOOLEAN :
                      ExtractOutputOf(fns[creator[k]].vKind, accs'[k], bsHeap', spHeap', n, keep)
                    = ExtractOutputOf(fns[creator[k]].vKind, accs[k], bsHeap, spHeap, n, keep)
          /\ \A k \in DOMAIN mapAccs \ TouchedMaps :
                /\ mapAccs'[k] = mapAccs[k]
                /\ mapHeap'[MapExtractOutput(mapAccs'[k])]
                       = mapHeap[MapExtractOutput(mapAccs[k])]
         ]_vars

\* Of two accumulators a task each holds, one took two inputs and the other
\* is still as CreateAccumulator returned it.
C19_Witness ==
    \E i \in live, j \in live :
        /\ i # j
        /\ SizeOver(Values, inputsOf[i]) = 2
        /\ bsHeap[accs[i].BS].sum > 0
        /\ bsHeap[accs[j].BS].sum = 0
        /\ spHeap[accs[j].SP].idCount = 0

----------------------------------------------------------------------------
(* Decoding: decodePairInt64Fn / decodePairFloat64Fn turn the rekeyed      *)
(* pairs (encoded X, metric M) back into (X, M).                           *)

MaxDecPairs == 2

\* The encoded X of the pairs that arrive: bytes this system encoded, and
\* bytes that are no encoding of anything (empty, too short, too long).
DecKeys     == {KeyA, <<97, 98>>, <<>>}
CorruptX    == {<<>>, <<2, 97>>, <<0, 98>>}
DecMetrics  == {-1, 4}

\* rekeyInt64Fn (rekeyFloat64Fn is the same on float64 metrics): the privacy
\* id becomes the key, the encoded value and the metric become the pair.
rekeyInt64Fn(kv, m) == <<kv.K, [X |-> kv.V, M |-> m]>>

\* The pairs that reach the decoder: the rekeyed ones, and ones whose bytes
\* were damaged on the way.
DecPairs ==
    {rekeyInt64Fn([K |-> KeyA, V |-> Encode(k)], m)[2] : k \in DecKeys, m \in DecMetrics}
        \cup [X : CorruptX, M : DecMetrics]

\* decodePairInt64Fn.ProcessElement: exit is log.Exitf, after which nothing
\* is returned; otherwise the one pair returned.
decodePairInt64Fn(pair) ==
    LET d == Decode(pair.X)
    IN  IF ~d.ok
        THEN [exit |-> TRUE, emitted |-> <<>>]
        ELSE [exit |-> FALSE, emitted |-> <<<<d.x, pair.M>>>>]

\* ProcessElement that skips a pair it cannot decode.
decodePairFloat64Fn_Skips(pair) ==
    LET d == Decode(pair.X)
    IN  IF ~d.ok
        THEN [exit |-> FALSE, emitted |-> <<>>]
        ELSE [exit |-> FALSE, emitted |-> <<<<d.x, pair.M>>>>]

\* decodePairFloat64Fn.ProcessElement
decodePairFloat64Fn(pair) ==
    LET d == Decode(pair.X)
    IN  IF ~d.ok
        THEN [exit |-> TRUE, emitted |-> <<>>]
        ELSE [exit |-> FALSE, emitted |-> <<<<d.x, pair.M>>>>]

\* newDecodePairFn: the DoFn of a value kind; any other kind is log.Exitf.
newDecodePairFn(kind, pair) ==
    CASE kind = Int64Kind   -> decodePairInt64Fn(pair)
      [] kind = Float64Kind -> decodePairFloat64Fn(pair)
      [] OTHER              -> [exit |-> TRUE, emitted |-> <<>>]

DecInit ==
    \E kind \in {Int64Kind, Float64Kind},
       pairs \in UNION {[1..n -> DecPairs] : n \in 0..MaxDecPairs} :
        dec = [kind |-> kind, pairs |-> pairs, todo |-> DOMAIN pairs, out |-> <<>>]

\* The ParDo processes pair i of its input, unless the process is gone.
DecodePair(i) ==
    /\ ~exited
    /\ i \in dec.todo
    /\ LET r == newDecodePairFn(dec.kind, dec.pairs[i])
       IN  /\ exited' = r.exit
           /\ dec' = [dec EXCEPT
                        !.todo = @ \ {i},
                        !.out  = @ \o [n \in DOMAIN r.emitted |->
                                          [src |-> i, rec |-> r.emitted[n]]]]
    /\ UNCHANGED <<fns, accs, bsHeap, spHeap, lastOut, post,
                   creator, inputsOf, leavesOf, live, adds>>
    /\ UNCHANGED <<boundVars, newArgs, setVars, filterVars, pipeVars, twinVars>>

DecNext == \E i \in dec.todo : DecodePair(i)

InitDec == DecInit /\ CombIdle /\ BoundIdle /\ NewIdle /\ SetIdle /\ PipeIdle /\ TwinIdle

SpecDec == InitDec /\ [][DecNext]_vars

\* The keys a byte sequence is the encoding of (none or one).
KeyUniverse == UNION {[1..n -> {97, 98}] : n \in 0..2}
KeysEncodedAs(bytes) == {k \in KeyUniverse : <<Len(k)>> \o k = bytes}

DecEmittedFrom(i) == {n \in DOMAIN dec.out : dec.out[n].src = i}

\* C21: decoding a pair either succeeds, emitting once the key its bytes
\* encode together with the metric M as received, or ends the run: a pair
\* whose bytes do not decode is never skipped with the run going on, and
\* no pair is emitted with a key other than the one its bytes encode.
C21_DecodeOrFatal ==
    /\ \A i \in DOMAIN dec.pairs \ dec.todo :
          IF KeysEncodedAs(dec.pairs[i].X) = {}
          THEN /\ exited
               /\ DecEmittedFrom(i) = {}
          ELSE /\ Cardinality(DecEmittedFrom(i)) = 1
               /\ \A n \in DecEmittedFrom(i) :
                     /\ dec.out[n].rec[1] \in KeysEncodedAs(dec.pairs[i].X)
                     /\ dec.out[n].rec[2] = dec.pairs[i].M
    /\ \A n \in DOMAIN dec.out : dec.out[n].src \in DOMAIN dec.pairs \ dec.todo
    /\ exited =>
          \E i \in DOMAIN dec.pairs \ dec.todo : KeysEncodedAs(dec.pairs[i].X) = {}

\* One pair was decoded and emitted with its two-byte key, the next did not
\* decode, and the run ended there.
C21_Witness ==
    /\ exited
    /\ Len(dec.pairs) = 2
    /\ dec.todo = {}
    /\ Len(dec.out) = 1
    /\ dec.out[1].rec = <<<<97, 98>>, 4>>
    /\ \E i \in DOMAIN dec.pairs : dec.pairs[i].X = <<2, 97>>

====
